---- MODULE Spec2Model ----
(***************************************************************************)
(* Chronos: the Zoom edge functions (zoom-oauth, cron-trigger, zoom-users, *)
(* zoom-meetings, refresh-zoom-token, zoom-webhook) and the tables of      *)
(* schema.sql they act on.                                                  *)
(*                                                                          *)
(* Every invocation of an edge function is a short-lived process; its      *)
(* steps are the points where the handler awaits the store or the          *)
(* provider.  Tables are functions from keys to rows; a JavaScript object  *)
(* is a function whose domain holds the keys that are not undefined (the   *)
(* store client serialises with JSON.stringify, which drops undefined).    *)
(***************************************************************************)
EXTENDS Integers, Sequences, FiniteSets, TLC

VARIABLES
    now,            \* Date.now(), milliseconds
    zoom,           \* the provider's token endpoint: tokens issued, refresh token accepted,
                    \* the expires_in of every pair issued
    zoom_tokens,    \* table zoom_tokens (key id = 1)
    zoom_users,     \* table zoom_users (key id)
    zoom_meetings,  \* table zoom_meetings (key meeting_id)
    zoom_events,    \* table zoom_events (append-only log)
    listing,        \* what the provider's listing endpoints may answer with
    env,            \* Deno.env: the secrets the functions are deployed with
    inv,            \* the running invocations: kind, position, locals, observed effects
    sig             \* the call or delivery a specification experiments with: its inputs,
                    \* and what was observed of it

vars == <<now, zoom, zoom_tokens, zoom_users, zoom_meetings, zoom_events, listing, env, inv, sig>>

(***************************************************************************)
(* Bounds of the model.                                                     *)
(***************************************************************************)
MaxTicks == 3      \* clock ticks of half a second
MaxIssued == 3     \* token pairs the provider issues
MaxPages == 2      \* pages of one listing
MaxPageLen == 1    \* objects on one page
MaxEvents == 2     \* webhook events received
MaxHalfDays == 3   \* half days the clock of the retention job runs

Invocations == {1, 2}
Serial == {1}      \* the slot of the specifications that run one invocation at a time
TickMs == 1000 \div 2
Epoch == 400 * 1000

(***************************************************************************)
(* Program constants.                                                       *)
(***************************************************************************)
fiveMinutes == 5 * 60 * 1000
MarginSeconds == 300
\* A header or secret string is the sequence of its pieces, so that
\* String.prototype.replace can take a piece out of the middle.
CRON_SECRET == <<"cron-", "secret">>

(***************************************************************************)
(* JavaScript objects and store rows.                                       *)
(***************************************************************************)
NULL == "NULL"
NoObject == << >>

Has(o, k) == k \in DOMAIN o

\* An object literal sent to the store: patch over row, key by key.
Merge(row, patch) ==
    [k \in DOMAIN row \cup DOMAIN patch |->
        IF k \in DOMAIN patch THEN patch[k] ELSE row[k]]

Restrict(o, keys) == [k \in DOMAIN o \cap keys |-> o[k]]

Remove(table, key) == [k \in DOMAIN table \ {key} |-> table[k]]

\* A read that answers with a blank credential when the row is missing; the
\* handlers do not read this way.
SelectOrBlank(table, key) ==
    IF key \in DOMAIN table THEN [k \in {key} |-> table[key]]
    ELSE [k \in {key} |-> [access_token |-> 0, refresh_token |-> 0, expires_at |-> 0]]

\* .from(t).select('*').eq('id', 1).single(): the row, or no data.
SelectSingle(table, key) == Restrict(table, {key})

(***************************************************************************)
(* zoom_tokens: id = 1 is the only key the CHECK constraint admits; every  *)
(* column is NOT NULL.                                                      *)
(***************************************************************************)
TokenColumns == {"access_token", "refresh_token", "expires_at"}

\* .update(patch).eq('id', 1): changes the row when it exists.
UpdateTokens(table, patch) ==
    IF 1 \in DOMAIN table
    THEN [table EXCEPT ![1] = Merge(@, patch)]
    ELSE table

\* .upsert({id: 1, ...}, {onConflict: 'id'}): NOT NULL is checked on the
\* proposed row, so a payload lacking a column is rejected.
UpsertTokensOk(patch) == TokenColumns \subseteq DOMAIN patch

\* An insert that takes the next free id; the table's CHECK (id = 1) and the
\* upsert on id do not allow it.
InsertTokens(table, patch) ==
    [k \in DOMAIN table \cup {Cardinality(DOMAIN table) + 1} |->
        IF k \in DOMAIN table THEN table[k] ELSE Restrict(patch, TokenColumns)]

UpsertTokens(table, patch) ==
    IF 1 \in DOMAIN table
    THEN [table EXCEPT ![1] = Merge(@, patch)]
    ELSE [k \in {1} |-> Restrict(patch, TokenColumns)]

(***************************************************************************)
(* The provider's token endpoint (https://zoom.us/oauth/token).  It issues *)
(* numbered token pairs; it accepts the refresh token it issued last and   *)
(* may answer any request with a non-success status.                       *)
(***************************************************************************)
\* The expires_in a provider may answer with; zoom.lifetimes is the part of
\* them the provider of a specification uses.
ExpiresInChoices == {301, 3599}

TokenBody(n, e, withRefresh) ==
    IF withRefresh
    THEN [ok |-> TRUE, access_token |-> n, refresh_token |-> n, expires_in |-> e]
    ELSE [ok |-> TRUE, access_token |-> n, expires_in |-> e]

Rejected == [ok |-> FALSE]

\* The provider after it issued pair number z.issued + 1 with expires_in e;
\* a rotating answer makes the new refresh token the one accepted.
Issue(z, e, rotate) ==
    [z EXCEPT !.issued = @ + 1,
              !.refresh = IF rotate THEN z.issued + 1 ELSE @,
              !.grants = Append(@, e)]

\* The answers to grant_type=refresh_token, each with the provider's next
\* state.  A provider with single-use refresh tokens rotates on every
\* success; another may leave refresh_token out of the answer and keep
\* accepting the one presented.
RefreshGrant(z, presented) ==
    {<<Rejected, z>>} \cup
    IF presented = z.refresh /\ z.issued < MaxIssued
    THEN { <<TokenBody(z.issued + 1, e, TRUE), Issue(z, e, TRUE)>> : e \in z.lifetimes }
         \cup
         IF z.singleUse THEN {}
         ELSE { <<TokenBody(z.issued + 1, e, FALSE), Issue(z, e, FALSE)>> :
                    e \in z.lifetimes }
    ELSE {}

\* The answers to grant_type=authorization_code.
CodeGrant(z) ==
    {<<Rejected, z>>} \cup
    IF z.issued < MaxIssued
    THEN { <<TokenBody(z.issued + 1, e, TRUE), Issue(z, e, TRUE)>> : e \in z.lifetimes }
    ELSE {}

\* The client id and secret the app is registered with at the provider.
ZoomApp == <<"client-id", "client-secret">>

\* The secrets of a complete deployment.
Provisioned == [ZOOM_CLIENT_ID |-> ZoomApp[1], ZOOM_CLIENT_SECRET |-> ZoomApp[2]]

\* Deno.env.get of a secret that is not set is undefined, here NULL.
Environments == [ZOOM_CLIENT_ID : {ZoomApp[1], NULL}, ZOOM_CLIENT_SECRET : {ZoomApp[2], NULL}]

\* !clientId || !clientSecret
MissingConfig(e) == e.ZOOM_CLIENT_ID = NULL \/ e.ZOOM_CLIENT_SECRET = NULL

\* btoa(`${ZOOM_CLIENT_ID}:${ZOOM_CLIENT_SECRET}`): a template literal prints
\* an undefined value as the word undefined.
Basic(e) ==
    << IF e.ZOOM_CLIENT_ID = NULL THEN "undefined" ELSE e.ZOOM_CLIENT_ID,
       IF e.ZOOM_CLIENT_SECRET = NULL THEN "undefined" ELSE e.ZOOM_CLIENT_SECRET >>

\* The token endpoint authenticates the client before it looks at the grant:
\* with any other Basic credentials the answer is a rejection.
ClientChecked(z, basic, answers) ==
    IF basic = ZoomApp THEN answers ELSE {<<Rejected, z>>}

(***************************************************************************)
(* An invocation.  The fields after `error' record what the invocation did *)
(* (calls made, writes issued, the next_page_token of every listing        *)
(* request), for the properties to speak about.                             *)
(***************************************************************************)
Idle ==
    [kind |-> "idle", pc |-> "idle", action |-> "",
     tokenData |-> NoObject, accessToken |-> 0, tokens |-> NoObject,
     cursor |-> "", pages |-> 0, queue |-> << >>, rest |-> << >>, batch |-> << >>,
     req |-> NoObject, isValid |-> FALSE,
     status |-> 0, error |-> "",
     margin |-> "", tokenCalls |-> 0, refused |-> FALSE,
     credWrites |-> 0, persisted |-> FALSE, storedAtReturn |-> 0,
     listCalls |-> 0, entityWrites |-> 0, removed |-> FALSE,
     logged |-> 0, sent |-> {}, asked |-> << >>, listFailures |-> 0]

Respond(r, status, error) ==
    [r EXCEPT !.pc = "done", !.status = status, !.error = error,
              !.req = Restrict(@, {"event", "authorization"}),
              !.tokens = NoObject,
              !.queue = << >>, !.rest = << >>, !.batch = << >>, !.cursor = ""]

\* The clock at the moment the handler checks the margin, against the
\* stored expiry: more than 300 seconds left, or not.
MarginAt(row, t) ==
    IF row.expires_at - t > MarginSeconds * 1000 THEN "fresh" ELSE "due"

(***************************************************************************)
(* zoom_users and zoom_meetings.  A row holds the columns the properties   *)
(* speak about; the other nullable columns of schema.sql (first_name,      *)
(* last_name, display_name, type, pmi, timezone, dept, uuid, duration,     *)
(* join_url, created_at, ...) are copied by the handlers the same way as   *)
(* status and topic are.                                                    *)
(***************************************************************************)
UserIds == {"u1", "u2"}
UserColumns == {"email", "status"}
MeetingColumns == {"host_id", "topic"}
MeetingNumbers == {123, 45}

NullRow(columns) == [c \in columns |-> NULL]

\* Number.prototype.toString / String(n) for a non-negative integer: its
\* decimal digits, one character each.
Digit(d) ==
    CASE d = 0 -> "0" [] d = 1 -> "1" [] d = 2 -> "2" [] d = 3 -> "3" [] d = 4 -> "4"
      [] d = 5 -> "5" [] d = 6 -> "6" [] d = 7 -> "7" [] d = 8 -> "8" [] d = 9 -> "9"

RECURSIVE NumberToString(_)
NumberToString(n) ==
    IF n < 10 THEN <<Digit(n)>> ELSE Append(NumberToString(n \div 10), Digit(n % 10))

\* A write that replaces the table by the one row; the store does not write
\* this way.
ReplaceByRow(table, key, columns, patch) ==
    [k \in {key} |-> Merge(NullRow(columns), Restrict(patch, columns))]

\* A write that, meeting a stored key, nulls the columns of the payload
\* instead of overwriting them; the store does not write this way.
ClearOnConflict(table, key, columns, patch) ==
    [k \in DOMAIN table \cup {key} |->
        IF k # key THEN table[k]
        ELSE IF key \in DOMAIN table
        THEN Merge(table[key], [c \in DOMAIN patch \cap columns |-> NULL])
        ELSE Merge(NullRow(columns), Restrict(patch, columns))]

\* updated_at of a row written now: every payload carries
\* new Date().toISOString(), the column defaults to NOW(), and the BEFORE
\* UPDATE trigger sets NOW().
Stamp(row) == Merge(row, [updated_at |-> now])

\* A write torn after the first column it sends, the rest of the payload
\* lost; the store applies one upsert as one statement.
UpsertTorn(table, key, columns, patch) ==
    LET old == IF key \in DOMAIN table THEN table[key] ELSE NullRow(columns)
        sending == DOMAIN patch \cap columns
        first == IF sending = {} THEN {} ELSE {CHOOSE c \in sending : TRUE}
    IN  [k \in DOMAIN table \cup {key} |->
            IF k = key THEN Merge(old, Restrict(patch, first) @@ [updated_at |-> now])
            ELSE table[k]]

\* INSERT ... ON CONFLICT (key) DO UPDATE of one row: the columns of the
\* payload overwrite, the others keep their value (NULL in a new row).
UpsertRow(table, key, columns, patch) ==
    LET old == IF key \in DOMAIN table THEN table[key] ELSE NullRow(columns)
    IN  [k \in DOMAIN table \cup {key} |->
            IF k = key THEN Stamp(Merge(old, Restrict(patch, columns))) ELSE table[k]]

\* zoom_users.email is NOT NULL, checked on the proposed row.
UserPayloadOk(patch) == Has(patch, "email") /\ patch.email # NULL

\* A store without the foreign key on host_id; the schema declares it.
AnyHost(users, row) == TRUE

\* zoom_meetings.host_id REFERENCES zoom_users(id).
MeetingRowOk(users, row) == row.host_id = NULL \/ row.host_id \in DOMAIN users

\* A delete without the foreign key's action; the schema does not declare it so.
KeepHost(meetings, key) == meetings

\* DELETE FROM zoom_users WHERE id = key, with ON DELETE SET NULL on the
\* meetings that name the user as host (an update of those rows, so the
\* updated_at trigger fires on them).
SetNullHost(meetings, key) ==
    [m \in DOMAIN meetings |->
        IF meetings[m].host_id = key
        THEN Stamp([meetings[m] EXCEPT !.host_id = NULL])
        ELSE meetings[m]]

(***************************************************************************)
(* The provider's listing endpoints: what one request may answer.          *)
(***************************************************************************)
RemoteUsers ==
    { [id |-> u, email |-> "a@x", status |-> s] :
        u \in UserIds, s \in {"active", "inactive"} }

RemoteMeetings ==
    { [id |-> n, host_id |-> h, topic |-> "t1"] : n \in MeetingNumbers, h \in UserIds }
    \cup { [id |-> 123, host_id |-> "u1", topic |-> "t2"] }

\* The pages a request may answer with: at most MaxPageLen listed objects.
PagesOf(S) ==
    UNION { { p \in [1 .. n -> S] : \A a, b \in 1 .. n : a # b => p[a] # p[b] } :
            n \in 0 .. MaxPageLen }

UserPages == PagesOf(listing.users)
MeetingPages == PagesOf(listing.meetings)
Cursors == {"", "X"}

(***************************************************************************)
(* cron-trigger: the shared-secret check, refreshZoomToken, then the       *)
(* action.                                                                  *)
(***************************************************************************)
\* The Authorization headers a caller may send; << >> is no header.
Bearers ==
    { <<"Bearer ">> \o CRON_SECRET, CRON_SECRET, <<"Bearer ", "wrong">>,
      <<"cron-", "Bearer ", "secret">>, << >> }

\* The headers that carry the Bearer scheme first, or nothing.
SchemeBearers == { b \in Bearers : b = << >> \/ Head(b) = "Bearer " }

\* s.replace(piece, ''): the first occurrence is taken out, wherever it is.
RECURSIVE ReplaceFirst(_, _)
ReplaceFirst(s, piece) ==
    IF s = << >> THEN << >>
    ELSE IF Head(s) = piece THEN Tail(s)
    ELSE <<Head(s)>> \o ReplaceFirst(Tail(s), piece)

\* authHeader.replace('Bearer ', '')
BearerToken(authHeader) == ReplaceFirst(authHeader, "Bearer ")
Actions == {"sync-users", "sync-meetings", "sync-all", "refresh-token", "other"}

\* if (expiresAt.getTime() - now.getTime() > fiveMinutes) return the stored token
TokenStillValid(row, t) == row.expires_at - t > fiveMinutes

\* An update that sends every column, a blank token (0) for a refresh_token
\* the response lacks; the handlers hand .update() an object whose undefined
\* keys are not sent.
FieldsWithBlank(resp, t) ==
    [access_token |-> resp.access_token,
     expires_at |-> t + resp.expires_in * 1000,
     refresh_token |-> IF Has(resp, "refresh_token") THEN resp.refresh_token ELSE 0]

\* The object handed to .update(): the keys of the response that are defined.
RefreshedFields(resp, t) ==
    LET base == [access_token |-> resp.access_token,
                 expires_at |-> t + resp.expires_in * 1000]
    IN  IF Has(resp, "refresh_token")
        THEN Merge(base, [refresh_token |-> resp.refresh_token])
        ELSE base

\* switch (action)
CronDispatch(r) ==
    CASE r.action = "sync-users" -> [r EXCEPT !.pc = "su_fetch", !.cursor = ""]
      [] r.action = "sync-all" -> [r EXCEPT !.pc = "su_fetch", !.cursor = ""]
      [] r.action = "sync-meetings" -> [r EXCEPT !.pc = "sm_read"]
      [] r.action = "refresh-token" -> Respond(r, 200, "")
      [] OTHER -> Respond(r, 400, "Unknown action")

\* The shared-secret check (token !== CRON_SECRET; a missing header gives
\* undefined), then the token step.
CronStart(i, authHeader, action) ==
    /\ inv[i].kind = "idle"
    /\ inv' = [inv EXCEPT ![i] =
            IF authHeader = << >> \/ BearerToken(authHeader) # CRON_SECRET
            THEN Respond([Idle EXCEPT !.kind = "cron", !.action = action,
                                      !.req = [authorization |-> authHeader]],
                         401, "Unauthorized")
            ELSE [Idle EXCEPT !.kind = "cron", !.action = action, !.pc = "token",
                              !.req = [authorization |-> authHeader]]]
    /\ UNCHANGED <<now, zoom, zoom_tokens, zoom_users, zoom_meetings, zoom_events, listing, env, sig>>

\* refreshZoomToken: read the row, return the stored token when it is valid
\* for more than five minutes.
CronReadToken(i, readOk) ==
    /\ inv[i].kind = "cron" /\ inv[i].pc = "token"
    /\ LET data == IF readOk THEN SelectSingle(zoom_tokens, 1) ELSE NoObject
           r == [inv[i] EXCEPT !.tokenData = data]
       IN  inv' = [inv EXCEPT ![i] =
            IF ~Has(data, 1)
            THEN Respond(r, 500, "No Zoom tokens found")
            ELSE IF TokenStillValid(data[1], now)
            THEN CronDispatch([r EXCEPT !.margin = MarginAt(data[1], now),
                                        !.accessToken = data[1].access_token,
                                        !.storedAtReturn = zoom_tokens[1].access_token])
            ELSE [r EXCEPT !.margin = MarginAt(data[1], now), !.pc = "refresh"]]
    /\ UNCHANGED <<now, zoom, zoom_tokens, zoom_users, zoom_meetings, zoom_events, listing, env, sig>>

\* A refreshZoomToken that goes on with whatever the provider answered; the
\* handler does not.
AnswerTaken(resp) == FALSE

\* if (!response.ok) throw
RefreshRejected(resp) == ~resp.ok

\* refreshZoomToken: the refresh call.
CronTokenCall(i) ==
    /\ inv[i].kind = "cron" /\ inv[i].pc = "refresh"
    /\ \E a \in ClientChecked(zoom, Basic(env), RefreshGrant(zoom, inv[i].tokenData[1].refresh_token)) :
        LET resp == a[1]
            r == [inv[i] EXCEPT !.tokenCalls = @ + 1, !.refused = ~resp.ok]
        IN  /\ zoom' = a[2]
            /\ inv' = [inv EXCEPT ![i] =
                 IF RefreshRejected(resp)
                 THEN Respond(r, 500, "Failed to refresh token")
                 ELSE [r EXCEPT !.pc = "persist",
                                !.tokens = IF resp.ok THEN RefreshedFields(resp, now) ELSE NoObject]]
    /\ UNCHANGED <<now, zoom_tokens, zoom_users, zoom_meetings, zoom_events, listing, env, sig>>

\* refreshZoomToken: the update of the row (its result is not looked at),
\* then return tokens.access_token.
CronTokenWrite(i, writeOk) ==
    /\ inv[i].kind = "cron" /\ inv[i].pc = "persist"
    /\ zoom_tokens' = IF writeOk THEN UpdateTokens(zoom_tokens, inv[i].tokens) ELSE zoom_tokens
    /\ inv' = [inv EXCEPT ![i] =
         CronDispatch([inv[i] EXCEPT
            !.credWrites = @ + 1,
            !.persisted = writeOk /\ 1 \in DOMAIN zoom_tokens,
            !.accessToken = IF Has(inv[i].tokens, "access_token")
                            THEN inv[i].tokens.access_token ELSE 0,
            !.storedAtReturn = IF 1 \in DOMAIN zoom_tokens'
                               THEN zoom_tokens'[1].access_token ELSE 0])]
    /\ UNCHANGED <<now, zoom, zoom_users, zoom_meetings, zoom_events, listing, env, sig>>

\* syncZoomUsers: after a page's users, the next page or the end of the loop.
UsersLoop(r) ==
    IF r.queue # << >> THEN [r EXCEPT !.pc = "su_upsert"]
    ELSE IF r.cursor # "" THEN [r EXCEPT !.pc = "su_fetch"]
    ELSE IF r.action = "sync-all" THEN [r EXCEPT !.pc = "sm_read"]
    ELSE Respond(r, 200, "")

\* syncZoomUsers: one page request.
CronUsersFetch(i, ok, page, next) ==
    /\ inv[i].kind = "cron" /\ inv[i].pc = "su_fetch"
    /\ inv[i].pages >= MaxPages - 1 => next = ""
    /\ LET r == [inv[i] EXCEPT !.listCalls = @ + 1, !.pages = @ + 1,
                                !.asked = Append(@, inv[i].cursor)]
       IN  inv' = [inv EXCEPT ![i] =
            IF ~ok THEN Respond(r, 500, "Zoom API error")
            ELSE UsersLoop([r EXCEPT !.queue = page, !.cursor = next])]
    /\ UNCHANGED <<now, zoom, zoom_tokens, zoom_users, zoom_meetings, zoom_events, listing, env, sig>>

\* syncZoomUsers: the object upserted for one listed user.
UserRecord(u) == Restrict(u, {"id", "email", "status"})

\* syncZoomUsers: one upsert (its result is not looked at).
CronUsersUpsert(i, writeOk) ==
    /\ inv[i].kind = "cron" /\ inv[i].pc = "su_upsert"
    /\ LET u == UserRecord(Head(inv[i].queue))
       IN  /\ zoom_users' = IF writeOk /\ UserPayloadOk(u)
                            THEN UpsertRow(zoom_users, u.id, UserColumns, u)
                            ELSE zoom_users
           /\ inv' = [inv EXCEPT ![i] =
                UsersLoop([inv[i] EXCEPT !.entityWrites = @ + 1, !.queue = Tail(@)])]
    /\ UNCHANGED <<now, zoom, zoom_tokens, zoom_meetings, zoom_events, listing, env, sig>>

\* The rows of a set in some order (the order the store returns them in).
RECURSIVE SeqOf(_)
SeqOf(S) ==
    IF S = {} THEN << >>
    ELSE LET x == CHOOSE y \in S : TRUE IN <<x>> \o SeqOf(S \ {x})

\* .from('zoom_users').select('id').eq('status', 'active')
ActiveUsers(users) == SeqOf({u \in DOMAIN users : users[u].status = "active"})

\* syncZoomMeetings: after a user's meetings, the next user or the end.
MeetingsLoop(r) ==
    IF r.queue # << >> THEN [r EXCEPT !.pc = "sm_upsert"]
    ELSE IF r.rest # << >> THEN [r EXCEPT !.pc = "sm_fetch"]
    ELSE Respond(r, 200, "")

\* syncZoomMeetings: the stored active users (users || [] when the read fails).
CronMeetingsRead(i, readOk) ==
    /\ inv[i].kind = "cron" /\ inv[i].pc = "sm_read"
    /\ inv' = [inv EXCEPT ![i] =
         MeetingsLoop([inv[i] EXCEPT
            !.rest = IF readOk THEN ActiveUsers(zoom_users) ELSE << >>])]
    /\ UNCHANGED <<now, zoom, zoom_tokens, zoom_users, zoom_meetings, zoom_events, listing, env, sig>>

\* syncZoomMeetings: one user's meetings request (first page only); a
\* non-success answer or a thrown error skips the user.
CronMeetingsFetch(i, ok, page) ==
    /\ inv[i].kind = "cron" /\ inv[i].pc = "sm_fetch"
    /\ inv' = [inv EXCEPT ![i] =
         MeetingsLoop([inv[i] EXCEPT
            !.listCalls = @ + 1,
            !.listFailures = IF ok THEN @ ELSE @ + 1,
            !.rest = Tail(@),
            !.queue = IF ok THEN page ELSE << >>])]
    /\ UNCHANGED <<now, zoom, zoom_tokens, zoom_users, zoom_meetings, zoom_events, listing, env, sig>>

\* The object upserted for one listed meeting: meeting_id is String(meeting.id).
MeetingRecord(m) ==
    Merge([meeting_id |-> NumberToString(m.id)], Restrict(m, MeetingColumns))

\* One meeting upsert as the store applies it: rejected, and nothing
\* changed, when the row would name a host that is not stored.
UpsertMeeting(users, meetings, patch) ==
    LET next == UpsertRow(meetings, patch.meeting_id, MeetingColumns, patch)
    IN  IF MeetingRowOk(users, next[patch.meeting_id]) THEN next ELSE meetings

\* syncZoomMeetings: one upsert (its result is not looked at).
CronMeetingsUpsert(i, writeOk) ==
    /\ inv[i].kind = "cron" /\ inv[i].pc = "sm_upsert"
    /\ zoom_meetings' = IF writeOk
                        THEN UpsertMeeting(zoom_users, zoom_meetings,
                                           MeetingRecord(Head(inv[i].queue)))
                        ELSE zoom_meetings
    /\ inv' = [inv EXCEPT ![i] =
         MeetingsLoop([inv[i] EXCEPT !.entityWrites = @ + 1, !.queue = Tail(@)])]
    /\ UNCHANGED <<now, zoom, zoom_tokens, zoom_users, zoom_events, listing, env, sig>>

(***************************************************************************)
(* zoom-oauth: the callback that exchanges the authorization code and      *)
(* stores the first token pair.                                             *)
(***************************************************************************)
NotConfigured == "Zoom credentials not configured in Edge Function secrets"

\* action=authorize: the caller's bearer token is looked up with
\* auth.getUser; the user's role is not read.  A 200 answer carries the
\* authorization_url.
OAuthAuthorize(i, caller) ==
    /\ inv[i].kind = "idle"
    /\ inv' = [inv EXCEPT ![i] =
         LET r == [Idle EXCEPT !.kind = "oauth", !.action = "authorize",
                               !.req = [authorization |-> caller]]
         IN  IF MissingConfig(env) THEN Respond(r, 500, NotConfigured)
             ELSE IF caller = "undefined" THEN Respond(r, 401, "Authorization required")
             ELSE IF caller = "invalid" THEN Respond(r, 401, "Invalid token")
             ELSE Respond(r, 200, "")]
    /\ UNCHANGED <<now, zoom, zoom_tokens, zoom_users, zoom_meetings, zoom_events, listing, env, sig>>

OAuthStart(i) ==
    /\ inv[i].kind = "idle"
    /\ inv' = [inv EXCEPT ![i] =
         IF MissingConfig(env)
         THEN Respond([Idle EXCEPT !.kind = "oauth"], 500, NotConfigured)
         ELSE [Idle EXCEPT !.kind = "oauth", !.pc = "exchange"]]
    /\ UNCHANGED <<now, zoom, zoom_tokens, zoom_users, zoom_meetings, zoom_events, listing, env, sig>>

OAuthExchange(i) ==
    /\ inv[i].kind = "oauth" /\ inv[i].pc = "exchange"
    /\ \E a \in ClientChecked(zoom, Basic(env), CodeGrant(zoom)) :
        LET resp == a[1]
            r == [inv[i] EXCEPT !.tokenCalls = @ + 1, !.refused = ~resp.ok]
        IN  /\ zoom' = a[2]
            /\ inv' = [inv EXCEPT ![i] =
                 IF ~resp.ok
                 THEN Respond(r, 400, "Failed to get Zoom tokens")
                 ELSE [r EXCEPT !.pc = "save", !.tokens = RefreshedFields(resp, now)]]
    /\ UNCHANGED <<now, zoom_tokens, zoom_users, zoom_meetings, zoom_events, listing, env, sig>>

OAuthSave(i, writeOk) ==
    /\ inv[i].kind = "oauth" /\ inv[i].pc = "save"
    /\ LET ok == writeOk /\ UpsertTokensOk(inv[i].tokens)
           r == [inv[i] EXCEPT !.credWrites = @ + 1, !.persisted = ok]
       IN  /\ zoom_tokens' = IF ok THEN UpsertTokens(zoom_tokens, inv[i].tokens)
                             ELSE zoom_tokens
           /\ inv' = [inv EXCEPT ![i] =
                IF ok THEN Respond(r, 200, "") ELSE Respond(r, 500, "Failed to save tokens")]
    /\ UNCHANGED <<now, zoom, zoom_users, zoom_meetings, zoom_events, listing, env, sig>>

(***************************************************************************)
(* zoom-users: verifyCronAuth, the token step, the paginated listing, one  *)
(* batch upsert.                                                            *)
(***************************************************************************)
\* A check that always asks for a refresh; the handlers do not check this way.
AlwaysExpiring(row, t) == TRUE

\* if (now >= expiresAt - 300), with now = Math.floor(Date.now() / 1000) and
\* expiresAt = getTime() / 1000 (not rounded): both sides times 1000.
TokenExpiring(row, t) == (t \div 1000) * 1000 >= row.expires_at - MarginSeconds * 1000

\* verifyCronAuth: the message it throws, "" when the caller is authorized.
VerifyCronAuth(authHeader) ==
    IF authHeader = << >> THEN "Missing Authorization header"
    ELSE IF BearerToken(authHeader) # CRON_SECRET THEN "Invalid authorization"
    ELSE ""

\* The catch block of zoom-users: 401 for a message that includes
\* 'Authorization' or 'token' (case-sensitive), else 500.
UsersStatus(message) ==
    IF message \in {"Missing Authorization header", "No Zoom tokens found."}
    THEN 401 ELSE 500

UsersStart(i, authHeader) ==
    /\ inv[i].kind = "idle"
    /\ LET r == [Idle EXCEPT !.kind = "users", !.req = [authorization |-> authHeader]]
           m == VerifyCronAuth(authHeader)
       IN  inv' = [inv EXCEPT ![i] =
             IF m # "" THEN Respond(r, UsersStatus(m), m) ELSE [r EXCEPT !.pc = "token"]]
    /\ UNCHANGED <<now, zoom, zoom_tokens, zoom_users, zoom_meetings, zoom_events, listing, env, sig>>

UsersReadToken(i, readOk) ==
    /\ inv[i].kind = "users" /\ inv[i].pc = "token"
    /\ LET data == IF readOk THEN SelectSingle(zoom_tokens, 1) ELSE NoObject
           r == [inv[i] EXCEPT !.tokenData = data]
       IN  inv' = [inv EXCEPT ![i] =
            IF ~Has(data, 1)
            THEN Respond(r, UsersStatus("No Zoom tokens found."), "No Zoom tokens found.")
            ELSE IF TokenExpiring(data[1], now)
            THEN [r EXCEPT !.margin = MarginAt(data[1], now),
                           !.accessToken = data[1].access_token, !.pc = "refresh"]
            ELSE [r EXCEPT !.margin = MarginAt(data[1], now),
                           !.accessToken = data[1].access_token,
                           !.storedAtReturn = zoom_tokens[1].access_token,
                           !.pc = "zu_fetch"]]
    /\ UNCHANGED <<now, zoom, zoom_tokens, zoom_users, zoom_meetings, zoom_events, listing, env, sig>>

\* A zoom-users that goes on with whatever the provider answered; the
\* handler does not.
UsersAnswerTaken(resp) == FALSE

\* if (!refreshRes.ok) throw
UsersRefreshRejected(resp) == ~resp.ok

UsersTokenCall(i) ==
    /\ inv[i].kind = "users" /\ inv[i].pc = "refresh"
    /\ \E a \in ClientChecked(zoom, Basic(env), RefreshGrant(zoom, inv[i].tokenData[1].refresh_token)) :
        LET resp == a[1]
            r == [inv[i] EXCEPT !.tokenCalls = @ + 1, !.refused = ~resp.ok]
        IN  /\ zoom' = a[2]
            /\ inv' = [inv EXCEPT ![i] =
                 IF UsersRefreshRejected(resp)
                 THEN Respond(r, UsersStatus("Token refresh failed"), "Token refresh failed")
                 ELSE [r EXCEPT !.pc = "persist",
                                !.accessToken = IF resp.ok THEN resp.access_token ELSE 0,
                                !.tokens = IF resp.ok THEN RefreshedFields(resp, now) ELSE NoObject]]
    /\ UNCHANGED <<now, zoom_tokens, zoom_users, zoom_meetings, zoom_events, listing, env, sig>>

\* The update of the row; its result is not looked at.
UsersTokenWrite(i, writeOk) ==
    /\ inv[i].kind = "users" /\ inv[i].pc = "persist"
    /\ zoom_tokens' = IF writeOk THEN UpdateTokens(zoom_tokens, inv[i].tokens) ELSE zoom_tokens
    /\ inv' = [inv EXCEPT ![i] =
         [@ EXCEPT !.credWrites = @ + 1,
                   !.persisted = writeOk /\ 1 \in DOMAIN zoom_tokens,
                   !.storedAtReturn = IF 1 \in DOMAIN zoom_tokens'
                                      THEN zoom_tokens'[1].access_token ELSE 0,
                   !.pc = "zu_fetch"]]
    /\ UNCHANGED <<now, zoom, zoom_users, zoom_meetings, zoom_events, listing, env, sig>>

\* do { fetch a page; allUsers.push(...data.users) } while (nextPageToken)
UsersFetch(i, ok, page, next) ==
    /\ inv[i].kind = "users" /\ inv[i].pc = "zu_fetch"
    /\ inv[i].pages >= MaxPages - 1 => next = ""
    /\ LET r == [inv[i] EXCEPT !.listCalls = @ + 1, !.pages = @ + 1,
                                !.asked = Append(@, inv[i].cursor)]
           all == inv[i].batch \o page
       IN  inv' = [inv EXCEPT ![i] =
            IF ~ok
            THEN Respond(r, UsersStatus("Failed to fetch Zoom users"), "Failed to fetch Zoom users")
            ELSE IF next # "" THEN [r EXCEPT !.batch = all, !.cursor = next]
            ELSE IF all # << >> THEN [r EXCEPT !.batch = all, !.cursor = next, !.pc = "zu_upsert"]
            ELSE Respond([r EXCEPT !.cursor = next], 200, "")]
    /\ UNCHANGED <<now, zoom, zoom_tokens, zoom_users, zoom_meetings, zoom_events, listing, env, sig>>

\* An array handed to .upsert(): the request names every key of every
\* object as a column, and a key an object leaves undefined is sent as null.
ArrayRow(o, keys) == [k \in keys |-> IF Has(o, k) THEN o[k] ELSE NULL]

Keys(batch, key) == { batch[n][key] : n \in DOMAIN batch }

\* One statement may not touch the same key twice.
NoDuplicates(batch, key) ==
    \A a, b \in DOMAIN batch : a # b => batch[a][key] # batch[b][key]

RECURSIVE UpsertUsers(_, _)
UpsertUsers(table, batch) ==
    IF batch = << >> THEN table
    ELSE UpsertUsers(UpsertRow(table, Head(batch).id, UserColumns, Head(batch)), Tail(batch))

UsersBatch(all) == [n \in DOMAIN all |-> ArrayRow(all[n], {"id", "email", "status"})]

UsersBatchOk(batch) ==
    /\ NoDuplicates(batch, "id")
    /\ \A n \in DOMAIN batch : UserPayloadOk(batch[n])

\* One upsert of all listed users; if (error) throw error.
UsersUpsert(i, writeOk) ==
    /\ inv[i].kind = "users" /\ inv[i].pc = "zu_upsert"
    /\ LET batch == UsersBatch(inv[i].batch)
           ok == writeOk /\ UsersBatchOk(batch)
           r == [inv[i] EXCEPT !.entityWrites = @ + 1]
       IN  /\ zoom_users' = IF ok THEN UpsertUsers(zoom_users, batch) ELSE zoom_users
           /\ inv' = [inv EXCEPT ![i] =
                IF ok THEN Respond(r, 200, "")
                ELSE Respond(r, UsersStatus("store error"), "store error")]
    /\ UNCHANGED <<now, zoom, zoom_tokens, zoom_meetings, zoom_events, listing, env, sig>>

(***************************************************************************)
(* zoom-meetings: verifyCronAuth, the token step, one page of users, the   *)
(* meetings of every listed user requested in parallel, one batch upsert.  *)
(***************************************************************************)
\* The catch block of zoom-meetings: 401 for 'Missing Authorization' or
\* 'Invalid or expired', 403 for 'not authorized' or 'Admin access', else 500.
MeetingsStatus(message) ==
    IF message = "Missing Authorization header" THEN 401 ELSE 500

NoTokens == "No Zoom tokens found. Please complete OAuth setup first."

MeetingsStart(i, authHeader) ==
    /\ inv[i].kind = "idle"
    /\ LET r == [Idle EXCEPT !.kind = "meetings", !.req = [authorization |-> authHeader]]
           m == VerifyCronAuth(authHeader)
       IN  inv' = [inv EXCEPT ![i] =
             IF m # "" THEN Respond(r, MeetingsStatus(m), m) ELSE [r EXCEPT !.pc = "token"]]
    /\ UNCHANGED <<now, zoom, zoom_tokens, zoom_users, zoom_meetings, zoom_events, listing, env, sig>>

MissingSecretsInSecrets == "Missing ZOOM_CLIENT_ID or ZOOM_CLIENT_SECRET in secrets"

\* The read of the row, the expiry check, and when a refresh is due the check
\* of the two secrets.
MeetingsReadToken(i, readOk) ==
    /\ inv[i].kind = "meetings" /\ inv[i].pc = "token"
    /\ LET data == IF readOk THEN SelectSingle(zoom_tokens, 1) ELSE NoObject
           r == [inv[i] EXCEPT !.tokenData = data]
       IN  inv' = [inv EXCEPT ![i] =
            IF ~Has(data, 1)
            THEN Respond(r, MeetingsStatus(NoTokens), NoTokens)
            ELSE IF TokenExpiring(data[1], now)
            THEN IF MissingConfig(env)
                 THEN Respond([r EXCEPT !.margin = MarginAt(data[1], now)],
                              MeetingsStatus(MissingSecretsInSecrets), MissingSecretsInSecrets)
                 ELSE [r EXCEPT !.margin = MarginAt(data[1], now),
                                !.accessToken = data[1].access_token, !.pc = "refresh"]
            ELSE [r EXCEPT !.margin = MarginAt(data[1], now),
                           !.accessToken = data[1].access_token,
                           !.storedAtReturn = zoom_tokens[1].access_token,
                           !.pc = "zm_users"]]
    /\ UNCHANGED <<now, zoom, zoom_tokens, zoom_users, zoom_meetings, zoom_events, listing, env, sig>>

\* if (!refreshRes.ok) throw
MeetingsRefreshRejected(resp) == ~resp.ok

MeetingsTokenCall(i) ==
    /\ inv[i].kind = "meetings" /\ inv[i].pc = "refresh"
    /\ \E a \in ClientChecked(zoom, Basic(env), RefreshGrant(zoom, inv[i].tokenData[1].refresh_token)) :
        LET resp == a[1]
            r == [inv[i] EXCEPT !.tokenCalls = @ + 1, !.refused = ~resp.ok]
        IN  /\ zoom' = a[2]
            /\ inv' = [inv EXCEPT ![i] =
                 IF MeetingsRefreshRejected(resp)
                 THEN Respond(r, MeetingsStatus("Token refresh failed"), "Token refresh failed")
                 ELSE [r EXCEPT !.pc = "persist",
                                !.accessToken = IF resp.ok THEN resp.access_token ELSE 0,
                                !.tokens = IF resp.ok THEN RefreshedFields(resp, now) ELSE NoObject]]
    /\ UNCHANGED <<now, zoom_tokens, zoom_users, zoom_meetings, zoom_events, listing, env, sig>>

\* The update of the row; its result is not looked at.
MeetingsTokenWrite(i, writeOk) ==
    /\ inv[i].kind = "meetings" /\ inv[i].pc = "persist"
    /\ zoom_tokens' = IF writeOk THEN UpdateTokens(zoom_tokens, inv[i].tokens) ELSE zoom_tokens
    /\ inv' = [inv EXCEPT ![i] =
         [@ EXCEPT !.credWrites = @ + 1,
                   !.persisted = writeOk /\ 1 \in DOMAIN zoom_tokens,
                   !.storedAtReturn = IF 1 \in DOMAIN zoom_tokens'
                                      THEN zoom_tokens'[1].access_token ELSE 0,
                   !.pc = "zm_users"]]
    /\ UNCHANGED <<now, zoom, zoom_users, zoom_meetings, zoom_events, listing, env, sig>>

\* After the answers of the parallel requests: the batch upsert, or the
\* response when nothing was listed.
MeetingsGather(r) ==
    IF r.rest # << >> THEN [r EXCEPT !.pc = "zm_meetings"]
    ELSE IF r.batch # << >> THEN [r EXCEPT !.pc = "zm_upsert"]
    ELSE Respond(r, 200, "")

\* The users request (one page), then users.map(fetch): one meetings
\* request per listed user, all started at once.
MeetingsUsersFetch(i, ok, page) ==
    /\ inv[i].kind = "meetings" /\ inv[i].pc = "zm_users"
    /\ LET r == [inv[i] EXCEPT !.listCalls = @ + 1]
       IN  inv' = [inv EXCEPT ![i] =
            IF ~ok THEN Respond(r, MeetingsStatus("Failed to fetch users"), "Failed to fetch users")
            ELSE MeetingsGather([r EXCEPT !.rest = page, !.listCalls = @ + Len(page)])]
    /\ UNCHANGED <<now, zoom, zoom_tokens, zoom_users, zoom_meetings, zoom_events, listing, env, sig>>

\* One of the parallel requests answers: its meetings, or [] when not ok.
MeetingsFetch(i, ok, page) ==
    /\ inv[i].kind = "meetings" /\ inv[i].pc = "zm_meetings"
    /\ inv' = [inv EXCEPT ![i] =
         MeetingsGather([inv[i] EXCEPT
            !.listFailures = IF ok THEN @ ELSE @ + 1,
            !.rest = Tail(@),
            !.batch = @ \o (IF ok THEN page ELSE << >>)])]
    /\ UNCHANGED <<now, zoom, zoom_tokens, zoom_users, zoom_meetings, zoom_events, listing, env, sig>>

\* The message of the error fetch() rejects with when the request cannot be
\* made or answered.
FetchThrown == "error sending request"

\* One of the parallel requests rejects: nothing inside users.map catches
\* it, Promise.all rejects, and the handler's catch block answers.
MeetingsFetchThrows(i) ==
    /\ inv[i].kind = "meetings" /\ inv[i].pc = "zm_meetings"
    /\ inv' = [inv EXCEPT ![i] =
         Respond([inv[i] EXCEPT !.listFailures = @ + 1],
                 MeetingsStatus(FetchThrown), FetchThrown)]
    /\ UNCHANGED <<now, zoom, zoom_tokens, zoom_users, zoom_meetings, zoom_events, listing, env, sig>>

\* uniqueMeetings: a Map keyed by m.id.toString(); a later entry replaces an
\* earlier one with the same key.
RECURSIVE Dedupe(_)
Dedupe(all) ==
    IF all = << >> THEN << >>
    ELSE LET last == all[Len(all)]
             front == Dedupe(SubSeq(all, 1, Len(all) - 1))
         IN  IF \E n \in DOMAIN front : front[n].id = last.id
             THEN [n \in DOMAIN front |-> IF front[n].id = last.id THEN last ELSE front[n]]
             ELSE Append(front, last)

MeetingsBatch(all) ==
    LET u == Dedupe(all)
    IN  [n \in DOMAIN u |->
            Merge([meeting_id |-> NumberToString(u[n].id)],
                  ArrayRow(u[n], MeetingColumns))]

RECURSIVE UpsertMeetings(_, _)
UpsertMeetings(table, batch) ==
    IF batch = << >> THEN table
    ELSE UpsertMeetings(
            UpsertRow(table, Head(batch).meeting_id, MeetingColumns, Head(batch)),
            Tail(batch))

MeetingsBatchOk(users, batch) ==
    \A n \in DOMAIN batch : MeetingRowOk(users, batch[n])

\* One upsert of all listed meetings; if (error) throw error.
MeetingsUpsert(i, writeOk) ==
    /\ inv[i].kind = "meetings" /\ inv[i].pc = "zm_upsert"
    /\ LET batch == MeetingsBatch(inv[i].batch)
           ok == writeOk /\ MeetingsBatchOk(zoom_users, batch)
           r == [inv[i] EXCEPT !.entityWrites = @ + 1]
       IN  /\ zoom_meetings' = IF ok THEN UpsertMeetings(zoom_meetings, batch) ELSE zoom_meetings
           /\ inv' = [inv EXCEPT ![i] =
                IF ok THEN Respond(r, 200, "")
                ELSE Respond(r, MeetingsStatus("store error"), "store error")]
    /\ UNCHANGED <<now, zoom, zoom_tokens, zoom_users, zoom_events, listing, env, sig>>

(***************************************************************************)
(* refresh-zoom-token: verifyAdminAuth, then an unconditional refresh.     *)
(***************************************************************************)
Callers == {"admin", "user", "invalid", "undefined"}

\* verifyAdminAuth: the message it throws, "" for an admin.
VerifyAdminAuth(caller) ==
    CASE caller = "undefined" -> "Missing Authorization header"
      [] caller = "invalid" -> "Invalid or expired token"
      [] caller = "user" -> "Admin access required"
      [] OTHER -> ""

\* The catch block of refresh-zoom-token: 401 for a message that includes
\* 'Authorization' or 'token', 403 for one that includes 'Admin'.
RefreshStatus(message) ==
    IF message = "Admin access required" THEN 403
    ELSE IF message \in {"Missing Authorization header", "Invalid or expired token",
                         "No token record found in DB"}
    THEN 401 ELSE 500

MissingSecrets == "Missing ZOOM_CLIENT_ID or ZOOM_CLIENT_SECRET"

\* verifyAdminAuth, then the check of the two secrets, before the row is read.
RefreshStart(i, caller) ==
    /\ inv[i].kind = "idle"
    /\ LET r == [Idle EXCEPT !.kind = "refresh"]
           m == VerifyAdminAuth(caller)
       IN  inv' = [inv EXCEPT ![i] =
             IF m # "" THEN Respond(r, RefreshStatus(m), m)
             ELSE IF MissingConfig(env)
             THEN Respond(r, RefreshStatus(MissingSecrets), MissingSecrets)
             ELSE [r EXCEPT !.pc = "token"]]
    /\ UNCHANGED <<now, zoom, zoom_tokens, zoom_users, zoom_meetings, zoom_events, listing, env, sig>>

RefreshReadToken(i, readOk) ==
    /\ inv[i].kind = "refresh" /\ inv[i].pc = "token"
    /\ LET data == IF readOk THEN SelectSingle(zoom_tokens, 1) ELSE NoObject
           r == [inv[i] EXCEPT !.tokenData = data]
       IN  inv' = [inv EXCEPT ![i] =
            IF ~Has(data, 1)
            THEN Respond(r, RefreshStatus("No token record found in DB"),
                         "No token record found in DB")
            ELSE [r EXCEPT !.margin = MarginAt(data[1], now), !.pc = "refresh"]]
    /\ UNCHANGED <<now, zoom, zoom_tokens, zoom_users, zoom_meetings, zoom_events, listing, env, sig>>

\* A handler that takes every answer of the provider for a grant; the
\* handler does not.
NeverRejected(resp) == FALSE

\* if (!zoomResponse.ok) throw
ZoomRejected(resp) == ~resp.ok

\* New token fields that leave the stored expiry as it is; the handler does
\* not build them this way.
FieldsWithoutExpiry(resp, current, t) ==
    [access_token |-> resp.access_token,
     refresh_token |-> IF Has(resp, "refresh_token") THEN resp.refresh_token ELSE current]

\* newRefreshToken = newTokens.refresh_token || currentRefreshToken
RefreshTokenFields(resp, current, t) ==
    [access_token |-> resp.access_token,
     refresh_token |-> IF Has(resp, "refresh_token") THEN resp.refresh_token ELSE current,
     expires_at |-> t + resp.expires_in * 1000]

RefreshTokenCall(i) ==
    /\ inv[i].kind = "refresh" /\ inv[i].pc = "refresh"
    /\ \E a \in ClientChecked(zoom, Basic(env), RefreshGrant(zoom, inv[i].tokenData[1].refresh_token)) :
        LET resp == a[1]
            r == [inv[i] EXCEPT !.tokenCalls = @ + 1, !.refused = ~resp.ok]
        IN  /\ zoom' = a[2]
            /\ inv' = [inv EXCEPT ![i] =
                 IF ZoomRejected(resp)
                 THEN Respond(r, RefreshStatus("Zoom API Error"), "Zoom API Error")
                 ELSE [r EXCEPT !.pc = "persist",
                                !.tokens = IF resp.ok
                                           THEN RefreshTokenFields(resp,
                                                    inv[i].tokenData[1].refresh_token, now)
                                           ELSE NoObject]]
    /\ UNCHANGED <<now, zoom_tokens, zoom_users, zoom_meetings, zoom_events, listing, env, sig>>

\* The update of the row; if (updateError) throw.
RefreshTokenWrite(i, writeOk) ==
    /\ inv[i].kind = "refresh" /\ inv[i].pc = "persist"
    /\ zoom_tokens' = IF writeOk THEN UpdateTokens(zoom_tokens, inv[i].tokens) ELSE zoom_tokens
    /\ LET r == [inv[i] EXCEPT
                    !.credWrites = @ + 1,
                    !.persisted = writeOk /\ 1 \in DOMAIN zoom_tokens,
                    !.accessToken = IF writeOk /\ Has(inv[i].tokens, "access_token")
                                    THEN inv[i].tokens.access_token ELSE 0,
                    !.storedAtReturn = IF 1 \in DOMAIN zoom_tokens'
                                       THEN zoom_tokens'[1].access_token ELSE 0]
       IN  inv' = [inv EXCEPT ![i] =
             IF writeOk THEN Respond(r, 200, "")
             ELSE Respond(r, RefreshStatus("Failed to update DB"), "Failed to update DB")]
    /\ UNCHANGED <<now, zoom, zoom_users, zoom_meetings, zoom_events, listing, env, sig>>

(***************************************************************************)
(* zoom-webhook: verifyZoomSignature.  A string is a sequence of           *)
(* characters; HMAC-SHA256 and its hex encoding are an injective function  *)
(* of the key and the message.                                              *)
(***************************************************************************)
ZOOM_WEBHOOK_SECRET_TOKEN == "webhook-secret"
MaxAge == 300

DigitChars == {"0", "1", "2", "3", "4", "5", "6", "7", "8", "9"}

DigitValue(c) ==
    CASE c = "0" -> 0 [] c = "1" -> 1 [] c = "2" -> 2 [] c = "3" -> 3 [] c = "4" -> 4
      [] c = "5" -> 5 [] c = "6" -> 6 [] c = "7" -> 7 [] c = "8" -> 8 [] c = "9" -> 9

\* The decimal value of a string of digits.
RECURSIVE DigitsValue(_)
DigitsValue(str) ==
    IF str = << >> THEN 0
    ELSE 10 * DigitsValue(SubSeq(str, 1, Len(str) - 1)) + DigitValue(str[Len(str)])

\* The longest prefix of digits.
RECURSIVE LeadingDigits(_)
LeadingDigits(str) ==
    IF str = << >> \/ Head(str) \notin DigitChars THEN << >>
    ELSE <<Head(str)>> \o LeadingDigits(Tail(str))

\* parseInt(str) for a string without sign, blanks or radix prefix: the value
\* of its leading digits, <<n>>, or NaN, << >>, when it has none.
ParseInt(str) ==
    IF LeadingDigits(str) = << >> THEN << >> ELSE <<DigitsValue(LeadingDigits(str))>>

Abs(n) == IF n < 0 THEN -n ELSE n

\* Math.abs(now - parseInt(timestamp)) > 300; a comparison with NaN is false.
TooOld(nowSeconds, parsed) ==
    parsed # << >> /\ Abs(nowSeconds - parsed[1]) > MaxAge

\* `v0:${timestamp}:${body}`
SignedMessage(timestamp, body) == <<"v", "0", ":">> \o timestamp \o <<":">> \o body

Hmac(key, message) == <<"hmac-sha256-hex", key, message>>

\* 'v0=' + hex(HMAC-SHA256(secret, message))
ComputedSignature(secret, timestamp, body) ==
    <<"v0=", Hmac(secret, SignedMessage(timestamp, body))>>

\* headers.get(name): the value, or null (here the empty string, which the
\* function treats alike).
Header(headers, name) == IF Has(headers, name) THEN headers[name] ELSE << >>

\* if (!signature || !timestamp) return false
HeaderMissing(signature, timestamp) == signature = << >> \/ timestamp = << >>

VerifyZoomSignature(headers, body, t) ==
    LET signature == Header(headers, "x-zm-signature")
        timestamp == Header(headers, "x-zm-request-timestamp")
    IN  IF HeaderMissing(signature, timestamp) THEN FALSE
        ELSE IF TooOld(t \div 1000, ParseInt(timestamp)) THEN FALSE
        ELSE signature = ComputedSignature(ZOOM_WEBHOOK_SECRET_TOKEN, timestamp, body)

(***************************************************************************)
(* zoom-webhook: the handler.  The raw body of a request is the            *)
(* serialisation of its JSON object, one symbol here.                      *)
(***************************************************************************)
relevantEvents ==
    {"meeting.started", "meeting.ended", "meeting.created", "meeting.updated",
     "meeting.deleted"}

UserEvents == {"user.created", "user.updated", "user.deleted", "user.disassociated"}

RawBody(body) == <<body>>

\* JSON.parse(rawBody) throws on a body that is not JSON; such a body is the
\* record of its text.
NotJson == [text |-> "not json"]
ParseThrows(body) == Has(body, "text")

\* body.event.startsWith('user.')
IsUserEvent(event) == event \in UserEvents

\* A gate that lets every request through; the handler's does not.
NeverRefused(isValid) == FALSE

\* The gate before every event but the URL validation: if (!isValid) 401.
SignatureRefused(isValid) == ~isValid

WebhookStart(i, request) ==
    /\ LET body == request.body
           isValid == VerifyZoomSignature(request.headers, RawBody(body), now)
           r == [Idle EXCEPT !.kind = "webhook", !.req = body,
                             !.sent = IF Has(body, "object") THEN DOMAIN body.object ELSE {}]
       IN  inv' = [inv EXCEPT ![i] =
            IF ParseThrows(body)
            THEN Respond(r, 500, "Internal server error")
            ELSE IF body.event = "endpoint.url_validation"
            THEN Respond(r, 200, "")
            ELSE IF SignatureRefused(isValid)
            THEN Respond([r EXCEPT !.isValid = isValid], 401, "Unauthorized")
            ELSE IF body.event \in relevantEvents
            THEN [r EXCEPT !.isValid = isValid, !.pc = "wh_log"]
            ELSE IF IsUserEvent(body.event)
            THEN [r EXCEPT !.isValid = isValid, !.pc = "wh_user"]
            ELSE Respond([r EXCEPT !.isValid = isValid], 200, "Event received")]
    /\ UNCHANGED <<now, zoom, zoom_tokens, zoom_users, zoom_meetings, zoom_events, listing, env, sig>>

\* The record of a meeting event; id?.toString() of the payload's id.
EventRecord(body) ==
    [event_type |-> body.event, meeting_id |-> NumberToString(body.object.id)]

\* created_at TIMESTAMPTZ DEFAULT NOW(): no insert names the column.
Created(record) == Merge(record, [created_at |-> now])

\* A handler that answers 500 when the insert into zoom_events fails; the
\* handler logs the error and goes on.
WebhookLogOrFail(i, writeOk) ==
    /\ inv[i].kind = "webhook" /\ inv[i].pc = "wh_log"
    /\ zoom_events' = IF writeOk THEN Append(zoom_events, Created(EventRecord(inv[i].req)))
                      ELSE zoom_events
    /\ inv' = [inv EXCEPT ![i] =
         IF writeOk
         THEN [@ EXCEPT !.entityWrites = @ + 1, !.logged = @ + 1, !.pc = "wh_meeting"]
         ELSE Respond([@ EXCEPT !.entityWrites = @ + 1], 500, "Internal server error")]
    /\ UNCHANGED <<now, zoom, zoom_tokens, zoom_users, zoom_meetings, listing, env, sig>>

\* .from('zoom_events').insert([meetingData]); an error is logged only.
WebhookLog(i, writeOk) ==
    /\ inv[i].kind = "webhook" /\ inv[i].pc = "wh_log"
    /\ zoom_events' = IF writeOk THEN Append(zoom_events, Created(EventRecord(inv[i].req)))
                      ELSE zoom_events
    /\ inv' = [inv EXCEPT ![i] = [@ EXCEPT !.entityWrites = @ + 1,
                                            !.logged = IF writeOk THEN @ + 1 ELSE @,
                                            !.pc = "wh_meeting"]]
    /\ UNCHANGED <<now, zoom, zoom_tokens, zoom_users, zoom_meetings, listing, env, sig>>

\* A payload that names every column, null where the event has no value;
\* the handler does not build syncData this way.
SyncAllColumns(m) ==
    Merge([meeting_id |-> NumberToString(m.id)],
          [c \in MeetingColumns |-> IF Has(m, c) THEN m[c] ELSE NULL])

\* syncData: the keys of the payload that are defined, meeting_id from
\* m.id.toString().
SyncData(m) ==
    Merge([meeting_id |-> NumberToString(m.id)], Restrict(m, MeetingColumns))

\* .delete().eq('meeting_id', key)
DeleteMeeting(meetings, key) == Remove(meetings, key)

\* The delete or the upsert of the meeting; an error is logged only.
WebhookMeeting(i, writeOk) ==
    /\ inv[i].kind = "webhook" /\ inv[i].pc = "wh_meeting"
    /\ LET m == inv[i].req.object
           deleting == inv[i].req.event = "meeting.deleted"
           next == IF deleting
                   THEN DeleteMeeting(zoom_meetings, NumberToString(m.id))
                   ELSE UpsertMeeting(zoom_users, zoom_meetings, SyncData(m))
       IN  /\ zoom_meetings' = IF writeOk THEN next ELSE zoom_meetings
           /\ inv' = [inv EXCEPT ![i] =
                Respond([@ EXCEPT !.entityWrites = @ + 1,
                                  !.removed = deleting /\ writeOk], 200, "")]
    /\ UNCHANGED <<now, zoom, zoom_tokens, zoom_users, zoom_events, listing, env, sig>>

\* A userData that keeps its undefined keys and sends them as null; the
\* handler deletes them before the upsert.
UserDataWithNulls(u) ==
    [k \in {"id", "email", "status"} |-> IF Has(u, k) THEN u[k] ELSE NULL]

\* userData with its undefined keys deleted.
UserData(u) == Restrict(u, {"id", "email", "status"})

\* .delete().eq('id', key)
DeleteUser(users, key) == Remove(users, key)

\* The delete or the upsert of the user; an error is logged only.
WebhookUser(i, writeOk) ==
    /\ inv[i].kind = "webhook" /\ inv[i].pc = "wh_user"
    /\ LET u == inv[i].req.object
           deleting == inv[i].req.event \in {"user.deleted", "user.disassociated"}
       IN  /\ zoom_users' =
                IF ~writeOk THEN zoom_users
                ELSE IF deleting THEN DeleteUser(zoom_users, u.id)
                ELSE IF UserPayloadOk(UserData(u))
                THEN UpsertRow(zoom_users, u.id, UserColumns, UserData(u))
                ELSE zoom_users
           /\ zoom_meetings' =
                IF writeOk /\ deleting THEN SetNullHost(zoom_meetings, u.id)
                ELSE zoom_meetings
           /\ inv' = [inv EXCEPT ![i] =
                Respond([@ EXCEPT !.entityWrites = @ + 1,
                                  !.removed = deleting /\ writeOk], 200, "")]
    /\ UNCHANGED <<now, zoom, zoom_tokens, zoom_events, listing, env, sig>>

(***************************************************************************)
(* The job cleanup-zoom-events, scheduled every hour:                      *)
(* DELETE FROM zoom_events WHERE created_at < NOW() - INTERVAL '24 hours'. *)
(***************************************************************************)
RetentionMs == 24 * 60 * 60 * 1000

\* A job that takes every record for old; the job's WHERE clause does not.
AlwaysExpired(e, t) == TRUE

\* created_at < NOW() - INTERVAL '24 hours'
Expired(e, t) == e.created_at < t - RetentionMs

RECURSIVE Kept(_, _)
Kept(events, t) ==
    IF events = << >> THEN << >>
    ELSE IF Expired(Head(events), t) THEN Kept(Tail(events), t)
    ELSE <<Head(events)>> \o Kept(Tail(events), t)

CleanupZoomEvents ==
    /\ zoom_events' = Kept(zoom_events, now)
    /\ UNCHANGED <<now, zoom, zoom_tokens, zoom_users, zoom_meetings, listing, env, inv, sig>>

(***************************************************************************)
(* The clock, and the end of an invocation.                                 *)
(***************************************************************************)
Tick ==
    /\ now < Epoch + MaxTicks * TickMs
    /\ now' = now + TickMs
    /\ UNCHANGED <<zoom, zoom_tokens, zoom_users, zoom_meetings, zoom_events, listing, env, inv, sig>>

\* Half a day passes.
HalfDayMs == 12 * 60 * 60 * 1000

HalfDay ==
    /\ now < Epoch + MaxHalfDays * HalfDayMs
    /\ now' = now + HalfDayMs
    /\ UNCHANGED <<zoom, zoom_tokens, zoom_users, zoom_meetings, zoom_events, listing, env, inv, sig>>

Finish(i) ==
    /\ inv[i].pc = "done"
    /\ inv' = [inv EXCEPT ![i] = Idle]
    /\ UNCHANGED <<now, zoom, zoom_tokens, zoom_users, zoom_meetings, zoom_events, listing, env, sig>>

(***************************************************************************)
(* The requests the webhook endpoint receives: an event about a listed     *)
(* meeting or user carrying any part of its fields, signed by the provider *)
(* now or 301 seconds ago, signed with another key, or not signed.         *)
(***************************************************************************)
Parts(o, columns) == { Restrict(o, {"id"} \cup K) : K \in SUBSET columns }

MeetingPayloads == UNION { Parts(m, MeetingColumns) : m \in listing.meetings }
UserPayloads == UNION { Parts(u, UserColumns) : u \in listing.users }

MeetingEventsSent == {"meeting.updated", "meeting.started", "meeting.deleted"}
UserEventsSent == {"user.updated", "user.deleted", "user.disassociated"}

WebhookBodies ==
    { [event |-> e, object |-> o] : e \in MeetingEventsSent, o \in MeetingPayloads }
    \cup { [event |-> e, object |-> o] : e \in UserEventsSent, o \in UserPayloads }
    \cup { [event |-> "endpoint.url_validation", object |-> [plainToken |-> "p"]],
           [event |-> "recording.completed", object |-> [id |-> 123]],
           NotJson }

SignedHeaders(key, timestamp, body) ==
    [k \in {"x-zm-signature", "x-zm-request-timestamp"} |->
        IF k = "x-zm-signature"
        THEN ComputedSignature(key, timestamp, RawBody(body))
        ELSE timestamp]

WebhookHeaders(body, t) ==
    { SignedHeaders(ZOOM_WEBHOOK_SECRET_TOKEN, NumberToString(t \div 1000), body),
      SignedHeaders(ZOOM_WEBHOOK_SECRET_TOKEN, NumberToString(t \div 1000 - MaxAge - 1), body),
      SignedHeaders("another-key", NumberToString(t \div 1000), body),
      NoObject }

WebhookRequests ==
    UNION { { [headers |-> h, body |-> b] : h \in WebhookHeaders(b, now) } :
            b \in WebhookBodies }

\* One request arrives.
WebhookReceive(i) ==
    /\ inv[i].kind = "idle"
    /\ Len(zoom_events) < MaxEvents
    /\ \E request \in WebhookRequests : WebhookStart(i, request)

InitWebhook ==
    /\ env = Provisioned
    /\ now = Epoch
    /\ zoom = [issued |-> 0, refresh |-> 0, singleUse |-> FALSE,
               lifetimes |-> {301}, grants |-> << >>]
    /\ zoom_tokens = << >>
    /\ zoom_users = << >>
    /\ zoom_meetings = << >>
    /\ zoom_events = << >>
    /\ listing = [users |-> { [id |-> u, email |-> "a@x", status |-> "active"] : u \in UserIds },
                  meetings |-> { [id |-> 123, host_id |-> "u1", topic |-> "t1"],
                                 [id |-> 45, host_id |-> "u2", topic |-> "t1"] }]
    /\ inv = [i \in Invocations |-> Idle]
    /\ sig = NoObject

NextWebhook ==
    \/ \E i \in Serial : WebhookReceive(i)
    \/ \E i \in Serial, writeOk \in BOOLEAN : WebhookLog(i, writeOk)
    \/ \E i \in Serial, writeOk \in BOOLEAN : WebhookMeeting(i, writeOk)
    \/ \E i \in Serial, writeOk \in BOOLEAN : WebhookUser(i, writeOk)
    \/ \E i \in Serial : Finish(i)

SpecWebhook == InitWebhook /\ [][NextWebhook]_vars

(***************************************************************************)
(* The token lifecycle: every handler that reads or writes zoom_tokens,    *)
(* one invocation at a time, against a provider that lists one user and    *)
(* one meeting.                                                             *)
(***************************************************************************)
InitToken ==
    /\ env = Provisioned
    /\ now = Epoch
    /\ zoom = [issued |-> 0, refresh |-> 0, singleUse |-> FALSE,
               lifetimes |-> {301}, grants |-> << >>]
    /\ zoom_tokens = << >>
    /\ zoom_users = << >>
    /\ zoom_meetings = << >>
    /\ zoom_events = << >>
    /\ listing = [users |-> {[id |-> "u1", email |-> "a@x", status |-> "active"]},
                  meetings |-> {[id |-> 123, host_id |-> "u1", topic |-> "t1"]}]
    /\ inv = [i \in Invocations |-> Idle]
    /\ sig = NoObject

NextToken ==
    \/ Tick
    \/ \E i \in Serial : OAuthStart(i)
    \/ \E i \in Serial : OAuthExchange(i)
    \/ \E i \in Serial, writeOk \in BOOLEAN : OAuthSave(i, writeOk)
    \/ \E i \in Serial, b \in SchemeBearers, a \in Actions : CronStart(i, b, a)
    \/ \E i \in Serial, readOk \in BOOLEAN : CronReadToken(i, readOk)
    \/ \E i \in Serial : CronTokenCall(i)
    \/ \E i \in Serial, writeOk \in BOOLEAN : CronTokenWrite(i, writeOk)
    \/ \E i \in Serial, ok \in BOOLEAN, page \in UserPages, next \in Cursors :
            CronUsersFetch(i, ok, page, next)
    \/ \E i \in Serial, writeOk \in BOOLEAN : CronUsersUpsert(i, writeOk)
    \/ \E i \in Serial, readOk \in BOOLEAN : CronMeetingsRead(i, readOk)
    \/ \E i \in Serial, ok \in BOOLEAN, page \in MeetingPages :
            CronMeetingsFetch(i, ok, page)
    \/ \E i \in Serial, writeOk \in BOOLEAN : CronMeetingsUpsert(i, writeOk)
    \/ \E i \in Serial, b \in SchemeBearers : UsersStart(i, b)
    \/ \E i \in Serial, readOk \in BOOLEAN : UsersReadToken(i, readOk)
    \/ \E i \in Serial : UsersTokenCall(i)
    \/ \E i \in Serial, writeOk \in BOOLEAN : UsersTokenWrite(i, writeOk)
    \/ \E i \in Serial, ok \in BOOLEAN, page \in UserPages, next \in Cursors :
            UsersFetch(i, ok, page, next)
    \/ \E i \in Serial, writeOk \in BOOLEAN : UsersUpsert(i, writeOk)
    \/ \E i \in Serial, b \in SchemeBearers : MeetingsStart(i, b)
    \/ \E i \in Serial, readOk \in BOOLEAN : MeetingsReadToken(i, readOk)
    \/ \E i \in Serial : MeetingsTokenCall(i)
    \/ \E i \in Serial, writeOk \in BOOLEAN : MeetingsTokenWrite(i, writeOk)
    \/ \E i \in Serial, ok \in BOOLEAN, page \in UserPages : MeetingsUsersFetch(i, ok, page)
    \/ \E i \in Serial, ok \in BOOLEAN, page \in MeetingPages : MeetingsFetch(i, ok, page)
    \/ \E i \in Serial, writeOk \in BOOLEAN : MeetingsUpsert(i, writeOk)
    \/ \E i \in Serial, c \in Callers : RefreshStart(i, c)
    \/ \E i \in Serial, readOk \in BOOLEAN : RefreshReadToken(i, readOk)
    \/ \E i \in Serial : RefreshTokenCall(i)
    \/ \E i \in Serial, writeOk \in BOOLEAN : RefreshTokenWrite(i, writeOk)
    \/ \E i \in Serial : Finish(i)

SpecToken == InitToken /\ [][NextToken]_vars

(***************************************************************************)
(* The bulk pulls: cron-trigger's sync actions, zoom-users and             *)
(* zoom-meetings, one invocation at a time, with a stored credential that  *)
(* is valid for an hour and a provider whose listings may name or omit any *)
(* user and any meeting.                                                    *)
(***************************************************************************)
InitPull ==
    /\ env = Provisioned
    /\ now = Epoch
    /\ zoom = [issued |-> 1, refresh |-> 1, singleUse |-> FALSE,
               lifetimes |-> ExpiresInChoices, grants |-> <<3599>>]
    /\ zoom_tokens = [k \in {1} |->
            [access_token |-> 1, refresh_token |-> 1, expires_at |-> Epoch + 3599 * 1000]]
    /\ zoom_users = << >>
    /\ zoom_meetings = << >>
    /\ zoom_events = << >>
    /\ listing = [users |-> RemoteUsers, meetings |-> RemoteMeetings]
    /\ inv = [i \in Invocations |-> Idle]
    /\ sig = NoObject

NextPull ==
    \/ \E i \in Serial, b \in Bearers, a \in Actions : CronStart(i, b, a)
    \/ \E i \in Serial, readOk \in BOOLEAN : CronReadToken(i, readOk)
    \/ \E i \in Serial, ok \in BOOLEAN, page \in UserPages, next \in Cursors :
            CronUsersFetch(i, ok, page, next)
    \/ \E i \in Serial, writeOk \in BOOLEAN : CronUsersUpsert(i, writeOk)
    \/ \E i \in Serial, readOk \in BOOLEAN : CronMeetingsRead(i, readOk)
    \/ \E i \in Serial, ok \in BOOLEAN, page \in MeetingPages :
            CronMeetingsFetch(i, ok, page)
    \/ \E i \in Serial, writeOk \in BOOLEAN : CronMeetingsUpsert(i, writeOk)
    \/ \E i \in Serial, b \in Bearers : UsersStart(i, b)
    \/ \E i \in Serial, readOk \in BOOLEAN : UsersReadToken(i, readOk)
    \/ \E i \in Serial, ok \in BOOLEAN, page \in UserPages, next \in Cursors :
            UsersFetch(i, ok, page, next)
    \/ \E i \in Serial, writeOk \in BOOLEAN : UsersUpsert(i, writeOk)
    \/ \E i \in Serial, b \in Bearers : MeetingsStart(i, b)
    \/ \E i \in Serial, readOk \in BOOLEAN : MeetingsReadToken(i, readOk)
    \/ \E i \in Serial, ok \in BOOLEAN, page \in UserPages : MeetingsUsersFetch(i, ok, page)
    \/ \E i \in Serial, ok \in BOOLEAN, page \in MeetingPages : MeetingsFetch(i, ok, page)
    \/ \E i \in Serial : MeetingsFetchThrows(i)
    \/ \E i \in Serial, writeOk \in BOOLEAN : MeetingsUpsert(i, writeOk)
    \/ \E i \in Serial : Finish(i)

SpecPull == InitPull /\ [][NextPull]_vars

(***************************************************************************)
(* verifyZoomSignature as a function: one call on headers, a raw body and  *)
(* a clock drawn from the sets below.  The clock reads 400 seconds, so a   *)
(* timestamp of 100 is 300 seconds old and one of 700 is 300 seconds       *)
(* ahead.                                                                   *)
(***************************************************************************)
VerifyTimestamps ==
    { NumberToString(n) : n \in {400, 100, 99, 700, 701} }
    \cup { << >>, <<"a", "b", "c">>, <<"1", "0", "0", "x">>, <<"4", "0", "0", ":", "7">> }

VerifyBodies == { <<"a">>, <<"b">>, <<"7", ":", "a">> }

VerifySignatures ==
    { ComputedSignature(k, ts, b) :
        k \in {ZOOM_WEBHOOK_SECRET_TOKEN, "another-key"},
        ts \in VerifyTimestamps, b \in VerifyBodies }
    \cup { << >> }

\* The request headers: a header whose value is empty is left out.
HeadersOf(signature, timestamp) ==
    LET all == [k \in {"x-zm-signature", "x-zm-request-timestamp"} |->
                    IF k = "x-zm-signature" THEN signature ELSE timestamp]
    IN  Restrict(all, {k \in DOMAIN all : all[k] # << >>})

InitVerify ==
    /\ env = Provisioned
    /\ now \in {Epoch, Epoch + TickMs}
    /\ zoom = [issued |-> 0, refresh |-> 0, singleUse |-> FALSE,
               lifetimes |-> {301}, grants |-> << >>]
    /\ zoom_tokens = << >>
    /\ zoom_users = << >>
    /\ zoom_meetings = << >>
    /\ zoom_events = << >>
    /\ listing = [users |-> {}, meetings |-> {}]
    /\ inv = [i \in Invocations |-> Idle]
    /\ \E s \in VerifySignatures, ts \in VerifyTimestamps, b \in VerifyBodies :
          sig = [headers |-> HeadersOf(s, ts), body |-> b, called |-> FALSE, result |-> FALSE]

\* const isValid = await verifyZoomSignature(req, rawBody)
Verify ==
    /\ ~sig.called
    /\ sig' = [sig EXCEPT !.called = TRUE,
                          !.result = VerifyZoomSignature(sig.headers, sig.body, now)]
    /\ UNCHANGED <<now, zoom, zoom_tokens, zoom_users, zoom_meetings, zoom_events, listing, env, inv>>

NextVerify == Verify

SpecVerify == InitVerify /\ [][NextVerify]_vars

(***************************************************************************)
(* At-least-once delivery: the provider sends one verified meeting or user *)
(* event and sends it again after the first response, while time passes.   *)
(* sig holds the request, the number of deliveries answered, and the       *)
(* tables as the first delivery left them.  The store carries out the      *)
(* writes of zoom_users and zoom_meetings.                                  *)
(***************************************************************************)
StoredUserStates ==
    { [u \in U |-> [email |-> "old@x", status |-> "inactive", updated_at |-> Epoch]] :
        U \in SUBSET UserIds }

StoredMeetingStates(users) ==
    UNION { { [k \in { NumberToString(n) : n \in K } |->
                    [host_id |-> h, topic |-> "t0", updated_at |-> Epoch]] :
                h \in {NULL} \cup DOMAIN users } :
            K \in SUBSET MeetingNumbers }

RedeliveredRequests ==
    { [headers |-> SignedHeaders(ZOOM_WEBHOOK_SECRET_TOKEN, NumberToString(Epoch \div 1000), b),
       body |-> b] :
        b \in { w \in WebhookBodies :
                    ~ParseThrows(w) /\ w.event \in MeetingEventsSent \cup UserEventsSent } }

InitRedelivery ==
    /\ env = Provisioned
    /\ now = Epoch
    /\ zoom = [issued |-> 0, refresh |-> 0, singleUse |-> FALSE,
               lifetimes |-> {301}, grants |-> << >>]
    /\ zoom_tokens = << >>
    /\ zoom_users \in StoredUserStates
    /\ zoom_meetings \in StoredMeetingStates(zoom_users)
    /\ zoom_events = << >>
    /\ listing = [users |-> { [id |-> u, email |-> "a@x", status |-> "active"] : u \in UserIds },
                  meetings |-> { [id |-> 123, host_id |-> "u1", topic |-> "t1"],
                                 [id |-> 45, host_id |-> "u2", topic |-> "t1"] }]
    /\ inv = [i \in Invocations |-> Idle]
    /\ sig \in { [request |-> q, answered |-> 0, once |-> << >>] : q \in RedeliveredRequests }

\* The provider sends the event, a first or a second time.
Deliver(i) ==
    /\ inv[i].kind = "idle"
    /\ sig.answered < 2
    /\ WebhookStart(i, sig.request)

\* The provider receives the response to a delivery.
Answered(i) ==
    /\ inv[i].kind = "webhook" /\ inv[i].pc = "done"
    /\ inv' = [inv EXCEPT ![i] = Idle]
    /\ sig' = [sig EXCEPT !.answered = @ + 1,
                          !.once = IF sig.answered = 0
                                   THEN <<zoom_users, zoom_meetings>> ELSE @]
    /\ UNCHANGED <<now, zoom, zoom_tokens, zoom_users, zoom_meetings, zoom_events, listing, env>>

NextRedelivery ==
    \/ Tick
    \/ \E i \in Serial : Deliver(i)
    \/ \E i \in Serial, writeOk \in BOOLEAN : WebhookLog(i, writeOk)
    \/ \E i \in Serial : WebhookMeeting(i, TRUE)
    \/ \E i \in Serial : WebhookUser(i, TRUE)
    \/ \E i \in Serial : Answered(i)

SpecRedelivery == InitRedelivery /\ [][NextRedelivery]_vars

(***************************************************************************)
(* Concurrent invocations on the credential: two handler runs at a time,   *)
(* each an OAuth callback, a cron-trigger refresh-token, a zoom-users pull *)
(* (of an empty listing) or a manual refresh, interleaved at their awaits. *)
(* The stored credential is inside the safety margin; the provider's       *)
(* refresh tokens are single-use or not.                                     *)
(***************************************************************************)
InitRace ==
    /\ env = Provisioned
    /\ now = Epoch
    /\ \E once \in BOOLEAN :
        zoom = [issued |-> 1, refresh |-> 1, singleUse |-> once,
                lifetimes |-> ExpiresInChoices, grants |-> <<MarginSeconds>>]
    /\ zoom_tokens = [k \in {1} |->
            [access_token |-> 1, refresh_token |-> 1,
             expires_at |-> Epoch + MarginSeconds * 1000]]
    /\ zoom_users = << >>
    /\ zoom_meetings = << >>
    /\ zoom_events = << >>
    /\ listing = [users |-> {}, meetings |-> {}]
    /\ inv = [i \in Invocations |-> Idle]
    /\ sig = NoObject

NextRace ==
    \/ Tick
    \/ \E i \in Invocations : OAuthStart(i)
    \/ \E i \in Invocations : OAuthExchange(i)
    \/ \E i \in Invocations, writeOk \in BOOLEAN : OAuthSave(i, writeOk)
    \/ \E i \in Invocations : CronStart(i, <<"Bearer ">> \o CRON_SECRET, "refresh-token")
    \/ \E i \in Invocations : CronReadToken(i, TRUE)
    \/ \E i \in Invocations : CronTokenCall(i)
    \/ \E i \in Invocations, writeOk \in BOOLEAN : CronTokenWrite(i, writeOk)
    \/ \E i \in Invocations : UsersStart(i, <<"Bearer ">> \o CRON_SECRET)
    \/ \E i \in Invocations : UsersReadToken(i, TRUE)
    \/ \E i \in Invocations : UsersTokenCall(i)
    \/ \E i \in Invocations, writeOk \in BOOLEAN : UsersTokenWrite(i, writeOk)
    \/ \E i \in Invocations, ok \in BOOLEAN : UsersFetch(i, ok, << >>, "")
    \/ \E i \in Invocations : RefreshStart(i, "admin")
    \/ \E i \in Invocations : RefreshReadToken(i, TRUE)
    \/ \E i \in Invocations : RefreshTokenCall(i)
    \/ \E i \in Invocations, writeOk \in BOOLEAN : RefreshTokenWrite(i, writeOk)
    \/ \E i \in Invocations : Finish(i)

SpecRace == InitRace /\ [][NextRace]_vars

(***************************************************************************)
(* Pagination of the users listing: the provider holds a finite sequence   *)
(* of pages (listing.book), each but the last with a next_page_token of    *)
(* its own, and answers a request with the page its next_page_token        *)
(* parameter leads to.  cron-trigger's sync-users and zoom-users pull it   *)
(* with a valid credential; the store carries out every write.             *)
(***************************************************************************)
BookCursor(k) == CASE k = 1 -> "c1" [] k = 2 -> "c2" [] k = 3 -> "c3" [] OTHER -> "c4"

\* The sequences of one to MaxPages pages: only the last has an empty cursor.
Books(users) ==
    UNION { { [k \in 1 .. n |->
                  [users |-> pages[k], next_page_token |-> IF k = n THEN "" ELSE BookCursor(k)]] :
              pages \in [1 .. n -> PagesOf(users)] } :
            n \in 1 .. MaxPages }

\* The answer to GET /v2/users?next_page_token=cursor.
PageAt(book, cursor) ==
    IF cursor = "" THEN book[1]
    ELSE book[1 + CHOOSE k \in 1 .. Len(book) - 1 : book[k].next_page_token = cursor]

InitPages ==
    /\ env = Provisioned
    /\ now = Epoch
    /\ zoom = [issued |-> 1, refresh |-> 1, singleUse |-> FALSE,
               lifetimes |-> ExpiresInChoices, grants |-> <<3599>>]
    /\ zoom_tokens = [k \in {1} |->
            [access_token |-> 1, refresh_token |-> 1, expires_at |-> Epoch + 3599 * 1000]]
    /\ zoom_users = << >>
    /\ zoom_meetings = << >>
    /\ zoom_events = << >>
    /\ \E users \in {{ [id |-> u, email |-> "a@x", status |-> "active"] : u \in UserIds }} :
       \E book \in Books(users) :
            listing = [users |-> users, meetings |-> {}, book |-> book]
    /\ inv = [i \in Invocations |-> Idle]
    /\ sig = NoObject

NextPages ==
    \/ \E i \in Serial : CronStart(i, <<"Bearer ">> \o CRON_SECRET, "sync-users")
    \/ \E i \in Serial : CronReadToken(i, TRUE)
    \/ \E i \in Serial :
        CronUsersFetch(i, TRUE, PageAt(listing.book, inv[i].cursor).users,
                       PageAt(listing.book, inv[i].cursor).next_page_token)
    \/ \E i \in Serial : CronUsersUpsert(i, TRUE)
    \/ \E i \in Serial : UsersStart(i, <<"Bearer ">> \o CRON_SECRET)
    \/ \E i \in Serial : UsersReadToken(i, TRUE)
    \/ \E i \in Serial :
        UsersFetch(i, TRUE, PageAt(listing.book, inv[i].cursor).users,
                   PageAt(listing.book, inv[i].cursor).next_page_token)
    \/ \E i \in Serial : UsersUpsert(i, TRUE)
    \/ \E i \in Serial : Finish(i)

SpecPages == InitPages /\ [][NextPages]_vars

(***************************************************************************)
(* The refreshing entry points one at a time, over every deployment of the *)
(* two provider secrets and over a credential row that is absent, due for  *)
(* a refresh, or valid for a long time yet.  The listings are empty.       *)
(***************************************************************************)
StoredCredentials ==
    { << >> } \cup
    { [k \in {1} |-> [access_token |-> 1, refresh_token |-> 1, expires_at |-> e]] :
        e \in {Epoch + MarginSeconds * 1000, Epoch + 3599 * 1000} }

ExplicitActions == {"refresh-token", "other"}

InitRefresh ==
    /\ env \in Environments
    /\ now = Epoch
    /\ zoom = [issued |-> 1, refresh |-> 1, singleUse |-> FALSE,
               lifetimes |-> {3599}, grants |-> <<MarginSeconds>>]
    /\ zoom_tokens \in StoredCredentials
    /\ zoom_users = << >>
    /\ zoom_meetings = << >>
    /\ zoom_events = << >>
    /\ listing = [users |-> {}, meetings |-> {}]
    /\ inv = [i \in Serial |-> Idle]
    /\ sig = NoObject

NextRefresh ==
    \/ Tick
    \/ \E i \in Serial, a \in ExplicitActions : CronStart(i, <<"Bearer ">> \o CRON_SECRET, a)
    \/ \E i \in Serial, readOk \in BOOLEAN : CronReadToken(i, readOk)
    \/ \E i \in Serial : CronTokenCall(i)
    \/ \E i \in Serial, writeOk \in BOOLEAN : CronTokenWrite(i, writeOk)
    \/ \E i \in Serial : UsersStart(i, <<"Bearer ">> \o CRON_SECRET)
    \/ \E i \in Serial, readOk \in BOOLEAN : UsersReadToken(i, readOk)
    \/ \E i \in Serial : UsersTokenCall(i)
    \/ \E i \in Serial, writeOk \in BOOLEAN : UsersTokenWrite(i, writeOk)
    \/ \E i \in Serial, ok \in BOOLEAN : UsersFetch(i, ok, << >>, "")
    \/ \E i \in Serial : MeetingsStart(i, <<"Bearer ">> \o CRON_SECRET)
    \/ \E i \in Serial, readOk \in BOOLEAN : MeetingsReadToken(i, readOk)
    \/ \E i \in Serial : MeetingsTokenCall(i)
    \/ \E i \in Serial, writeOk \in BOOLEAN : MeetingsTokenWrite(i, writeOk)
    \/ \E i \in Serial, ok \in BOOLEAN : MeetingsUsersFetch(i, ok, << >>)
    \/ \E i \in Serial, caller \in Callers : RefreshStart(i, caller)
    \/ \E i \in Serial, readOk \in BOOLEAN : RefreshReadToken(i, readOk)
    \/ \E i \in Serial : RefreshTokenCall(i)
    \/ \E i \in Serial, writeOk \in BOOLEAN : RefreshTokenWrite(i, writeOk)
    \/ \E i \in Serial : Finish(i)

SpecRefresh == InitRefresh /\ [][NextRefresh]_vars

(***************************************************************************)
(* A bulk pull racing with a webhook delta on one meeting_id.  Two         *)
(* invocations run interleaved at their awaits: a pull (cron-trigger       *)
(* sync-meetings, or zoom-meetings) to which the provider lists meeting    *)
(* 123 as PullSnapshot, and a verified meeting.updated for meeting 123     *)
(* carrying any part of DeltaSnapshot.  Both hosts are stored, the         *)
(* credential is valid, and the store carries out every write.             *)
(***************************************************************************)
PullSnapshot == [id |-> 123, host_id |-> "u1", topic |-> "t1"]
DeltaSnapshot == [id |-> 123, host_id |-> "u2", topic |-> "t2"]

DeltaRequests ==
    { [headers |-> SignedHeaders(ZOOM_WEBHOOK_SECRET_TOKEN, NumberToString(now \div 1000),
                                 [event |-> "meeting.updated", object |-> o]),
       body |-> [event |-> "meeting.updated", object |-> o]] :
        o \in Parts(DeltaSnapshot, MeetingColumns) }

InitMerge ==
    /\ env = Provisioned
    /\ now = Epoch
    /\ zoom = [issued |-> 1, refresh |-> 1, singleUse |-> FALSE,
               lifetimes |-> {3599}, grants |-> <<3599>>]
    /\ zoom_tokens = [k \in {1} |->
            [access_token |-> 1, refresh_token |-> 1, expires_at |-> Epoch + 3599 * 1000]]
    /\ zoom_users = [u \in UserIds |->
            [email |-> "a@x", status |-> IF u = "u1" THEN "active" ELSE "inactive",
             updated_at |-> Epoch]]
    /\ zoom_meetings = << >>
    /\ zoom_events = << >>
    /\ listing = [users |-> {[id |-> "u1", email |-> "a@x", status |-> "active"]},
                  meetings |-> {PullSnapshot}]
    /\ inv = [i \in Invocations |-> Idle]
    /\ sig = NoObject

NextMerge ==
    \/ Tick
    \/ \E i \in Invocations :
            /\ \A j \in Invocations : inv[j].kind \notin {"cron", "meetings"}
            /\ CronStart(i, <<"Bearer ">> \o CRON_SECRET, "sync-meetings")
    \/ \E i \in Invocations : CronReadToken(i, TRUE)
    \/ \E i \in Invocations : CronMeetingsRead(i, TRUE)
    \/ \E i \in Invocations, ok \in BOOLEAN :
            CronMeetingsFetch(i, ok, <<PullSnapshot>>)
    \/ \E i \in Invocations : CronMeetingsUpsert(i, TRUE)
    \/ \E i \in Invocations :
            /\ \A j \in Invocations : inv[j].kind \notin {"cron", "meetings"}
            /\ MeetingsStart(i, <<"Bearer ">> \o CRON_SECRET)
    \/ \E i \in Invocations : MeetingsReadToken(i, TRUE)
    \/ \E i \in Invocations, ok \in BOOLEAN, page \in UserPages : MeetingsUsersFetch(i, ok, page)
    \/ \E i \in Invocations, ok \in BOOLEAN : MeetingsFetch(i, ok, <<PullSnapshot>>)
    \/ \E i \in Invocations : MeetingsUpsert(i, TRUE)
    \/ \E i \in Invocations, request \in DeltaRequests :
            /\ inv[i].kind = "idle"
            /\ \A j \in Invocations : inv[j].kind # "webhook"
            /\ WebhookStart(i, request)
    \/ \E i \in Invocations, writeOk \in BOOLEAN : WebhookLog(i, writeOk)
    \/ \E i \in Invocations : WebhookMeeting(i, TRUE)

SpecMerge == InitMerge /\ [][NextMerge]_vars

(***************************************************************************)
(* The users bulk pull over a paginated listing in which any page request  *)
(* may fail: the listing of InitPages, the pulls one at a time, the store  *)
(* carrying out every read and write.                                      *)
(***************************************************************************)
NextFailingPages ==
    \/ \E i \in Serial : CronStart(i, <<"Bearer ">> \o CRON_SECRET, "sync-users")
    \/ \E i \in Serial : CronReadToken(i, TRUE)
    \/ \E i \in Serial, ok \in BOOLEAN :
        CronUsersFetch(i, ok, PageAt(listing.book, inv[i].cursor).users,
                       PageAt(listing.book, inv[i].cursor).next_page_token)
    \/ \E i \in Serial : CronUsersUpsert(i, TRUE)
    \/ \E i \in Serial : UsersStart(i, <<"Bearer ">> \o CRON_SECRET)
    \/ \E i \in Serial : UsersReadToken(i, TRUE)
    \/ \E i \in Serial, ok \in BOOLEAN :
        UsersFetch(i, ok, PageAt(listing.book, inv[i].cursor).users,
                   PageAt(listing.book, inv[i].cursor).next_page_token)
    \/ \E i \in Serial : UsersUpsert(i, TRUE)

SpecFailingPages == InitPages /\ [][NextFailingPages]_vars

(***************************************************************************)
(* The meetings bulk pull when the provider lists one user's meetings on   *)
(* several pages: user u1 is stored and listed, the credential is valid,   *)
(* the store carries out every read and write, and every request answers.  *)
(* Neither handler sends a next_page_token, so each request is answered    *)
(* with the first page of the listing.                                     *)
(***************************************************************************)
HostedByU1 == { [id |-> n, host_id |-> "u1", topic |-> "t1"] : n \in MeetingNumbers }

\* The sequences of one to MaxPages pages of meetings: only the last has an
\* empty cursor.
MeetingBooks(meetings) ==
    UNION { { [k \in 1 .. n |->
                  [meetings |-> pages[k],
                   next_page_token |-> IF k = n THEN "" ELSE BookCursor(k)]] :
              pages \in [1 .. n -> PagesOf(meetings)] } :
            n \in 1 .. MaxPages }

ListedU1 == [id |-> "u1", email |-> "a@x", status |-> "active"]

InitMeetingPages ==
    /\ env = Provisioned
    /\ now = Epoch
    /\ zoom = [issued |-> 1, refresh |-> 1, singleUse |-> FALSE,
               lifetimes |-> {3599}, grants |-> <<3599>>]
    /\ zoom_tokens = [k \in {1} |->
            [access_token |-> 1, refresh_token |-> 1, expires_at |-> Epoch + 3599 * 1000]]
    /\ zoom_users = [u \in {"u1"} |->
            [email |-> "a@x", status |-> "active", updated_at |-> Epoch]]
    /\ zoom_meetings = << >>
    /\ zoom_events = << >>
    /\ \E book \in MeetingBooks(HostedByU1) :
            listing = [users |-> {ListedU1}, meetings |-> HostedByU1, book |-> book]
    /\ inv = [i \in Serial |-> Idle]
    /\ sig = NoObject

NextMeetingPages ==
    \/ \E i \in Serial, a \in {"sync-meetings", "sync-all"} :
            CronStart(i, <<"Bearer ">> \o CRON_SECRET, a)
    \/ \E i \in Serial : CronReadToken(i, TRUE)
    \/ \E i \in Serial : CronUsersFetch(i, TRUE, <<ListedU1>>, "")
    \/ \E i \in Serial : CronUsersUpsert(i, TRUE)
    \/ \E i \in Serial : CronMeetingsRead(i, TRUE)
    \/ \E i \in Serial : CronMeetingsFetch(i, TRUE, listing.book[1].meetings)
    \/ \E i \in Serial : CronMeetingsUpsert(i, TRUE)
    \/ \E i \in Serial : MeetingsStart(i, <<"Bearer ">> \o CRON_SECRET)
    \/ \E i \in Serial : MeetingsReadToken(i, TRUE)
    \/ \E i \in Serial : MeetingsUsersFetch(i, TRUE, <<ListedU1>>)
    \/ \E i \in Serial : MeetingsFetch(i, TRUE, listing.book[1].meetings)
    \/ \E i \in Serial : MeetingsUpsert(i, TRUE)

SpecMeetingPages == InitMeetingPages /\ [][NextMeetingPages]_vars

(***************************************************************************)
(* The audit log over days: verified meeting.updated events for meeting    *)
(* 123 arrive one at a time, the clock moves by half days, and the hourly  *)
(* job cleanup-zoom-events runs at any time.  The store carries out every  *)
(* insert into the log.                                                    *)
(***************************************************************************)
InitRetention ==
    /\ env = Provisioned
    /\ now = Epoch
    /\ zoom = [issued |-> 0, refresh |-> 0, singleUse |-> FALSE,
               lifetimes |-> {301}, grants |-> << >>]
    /\ zoom_tokens = << >>
    /\ zoom_users = [u \in UserIds |->
            [email |-> "a@x", status |-> "active", updated_at |-> Epoch]]
    /\ zoom_meetings = << >>
    /\ zoom_events = << >>
    /\ listing = [users |-> {}, meetings |-> {DeltaSnapshot}]
    /\ inv = [i \in Serial |-> Idle]
    /\ sig = NoObject

NextRetention ==
    \/ HalfDay
    \/ CleanupZoomEvents
    \/ \E i \in Serial, request \in DeltaRequests :
            /\ inv[i].kind = "idle"
            /\ Len(zoom_events) < MaxEvents
            /\ WebhookStart(i, request)
    \/ \E i \in Serial : WebhookLog(i, TRUE)
    \/ \E i \in Serial, writeOk \in BOOLEAN : WebhookMeeting(i, writeOk)
    \/ \E i \in Serial : Finish(i)

SpecRetention == InitRetention /\ [][NextRetention]_vars

(***************************************************************************)
(* The meetings bulk pull over three users: all three are stored and       *)
(* active, the provider lists them, the credential is valid and the store  *)
(* carries out every read and write.  A meetings request answers with no   *)
(* meeting or with the user's one meeting, or fails.                       *)
(***************************************************************************)
ThreeUsers == <<"u1", "u2", "u3">>

ListedUser(u) == [id |-> u, email |-> "a@x", status |-> "active"]

InitFanOut ==
    /\ env = Provisioned
    /\ now = Epoch
    /\ zoom = [issued |-> 1, refresh |-> 1, singleUse |-> FALSE,
               lifetimes |-> {3599}, grants |-> <<3599>>]
    /\ zoom_tokens = [k \in {1} |->
            [access_token |-> 1, refresh_token |-> 1, expires_at |-> Epoch + 3599 * 1000]]
    /\ zoom_users = [u \in {ThreeUsers[n] : n \in DOMAIN ThreeUsers} |->
            [email |-> "a@x", status |-> "active", updated_at |-> Epoch]]
    /\ zoom_meetings = << >>
    /\ zoom_events = << >>
    /\ listing = [users |-> {ListedUser(ThreeUsers[n]) : n \in DOMAIN ThreeUsers},
                  meetings |-> {[id |-> 123, host_id |-> "u1", topic |-> "t1"]}]
    /\ inv = [i \in Serial |-> Idle]
    /\ sig = NoObject

NextFanOut ==
    \/ \E i \in Serial : CronStart(i, <<"Bearer ">> \o CRON_SECRET, "sync-meetings")
    \/ \E i \in Serial : CronReadToken(i, TRUE)
    \/ \E i \in Serial : CronMeetingsRead(i, TRUE)
    \/ \E i \in Serial, ok \in BOOLEAN, page \in MeetingPages : CronMeetingsFetch(i, ok, page)
    \/ \E i \in Serial : CronMeetingsUpsert(i, TRUE)
    \/ \E i \in Serial : MeetingsStart(i, <<"Bearer ">> \o CRON_SECRET)
    \/ \E i \in Serial : MeetingsReadToken(i, TRUE)
    \/ \E i \in Serial, ok \in BOOLEAN :
            MeetingsUsersFetch(i, ok, [n \in DOMAIN ThreeUsers |-> ListedUser(ThreeUsers[n])])
    \/ \E i \in Serial, ok \in BOOLEAN, page \in MeetingPages : MeetingsFetch(i, ok, page)
    \/ \E i \in Serial : MeetingsFetchThrows(i)
    \/ \E i \in Serial : MeetingsUpsert(i, TRUE)
    \/ \E i \in Serial : Finish(i)

SpecFanOut == InitFanOut /\ [][NextFanOut]_vars

(***************************************************************************)
(* zoom-oauth called by every kind of caller, with and without the         *)
(* application's secrets configured: the authorize action and the          *)
(* callback, two invocations at a time.                                     *)
(***************************************************************************)
InitAuthorize ==
    /\ env \in Environments
    /\ now = Epoch
    /\ zoom = [issued |-> 1, refresh |-> 1, singleUse |-> FALSE,
               lifetimes |-> {3599}, grants |-> <<3599>>]
    /\ zoom_tokens \in StoredCredentials
    /\ zoom_users = << >>
    /\ zoom_meetings = << >>
    /\ zoom_events = << >>
    /\ listing = [users |-> {}, meetings |-> {}]
    /\ inv = [i \in Invocations |-> Idle]
    /\ sig = NoObject

NextAuthorize ==
    \/ \E i \in Invocations, caller \in Callers : OAuthAuthorize(i, caller)
    \/ \E i \in Invocations : OAuthStart(i)
    \/ \E i \in Invocations : OAuthExchange(i)
    \/ \E i \in Invocations, writeOk \in BOOLEAN : OAuthSave(i, writeOk)
    \/ \E i \in Invocations : Finish(i)

SpecAuthorize == InitAuthorize /\ [][NextAuthorize]_vars

(***************************************************************************)
(* A meeting the provider deletes.  The provider lists meeting 123 until   *)
(* it deletes it, and produces nothing about it afterwards: the            *)
(* meeting.deleted event is sent after the deletion, the meeting.updated   *)
(* events were produced before it and may be delivered at any time, and a  *)
(* listing request answers with what the provider lists when it is made.   *)
(* The invocation that applied the deletion is kept as the record of it.   *)
(***************************************************************************)
ProviderDeletes ==
    /\ listing.meetings # {}
    /\ listing' = [listing EXCEPT !.meetings = {}]
    /\ UNCHANGED <<now, zoom, zoom_tokens, zoom_users, zoom_meetings, zoom_events, env, inv, sig>>

Listed == IF listing.meetings = {} THEN << >> ELSE <<PullSnapshot>>

MeetingEvent(event) ==
    [headers |-> SignedHeaders(ZOOM_WEBHOOK_SECRET_TOKEN, NumberToString(now \div 1000),
                               [event |-> event, object |-> DeltaSnapshot]),
     body |-> [event |-> event, object |-> DeltaSnapshot]]

InitDeletion == InitMerge

NextDeletion ==
    \/ ProviderDeletes
    \/ \E i \in Invocations :
            /\ \A j \in Invocations : inv[j].kind \notin {"cron", "meetings"}
            /\ CronStart(i, <<"Bearer ">> \o CRON_SECRET, "sync-meetings")
    \/ \E i \in Invocations : CronReadToken(i, TRUE)
    \/ \E i \in Invocations : CronMeetingsRead(i, TRUE)
    \/ \E i \in Invocations, ok \in BOOLEAN : CronMeetingsFetch(i, ok, Listed)
    \/ \E i \in Invocations : CronMeetingsUpsert(i, TRUE)
    \/ \E i \in Invocations :
            /\ \A j \in Invocations : inv[j].kind \notin {"cron", "meetings"}
            /\ MeetingsStart(i, <<"Bearer ">> \o CRON_SECRET)
    \/ \E i \in Invocations : MeetingsReadToken(i, TRUE)
    \/ \E i \in Invocations, ok \in BOOLEAN, page \in UserPages : MeetingsUsersFetch(i, ok, page)
    \/ \E i \in Invocations, ok \in BOOLEAN : MeetingsFetch(i, ok, Listed)
    \/ \E i \in Invocations : MeetingsUpsert(i, TRUE)
    \/ \E i \in Invocations :
            /\ inv[i].kind = "idle"
            /\ \A j \in Invocations : inv[j].kind # "webhook" \/ inv[j].pc = "done"
            /\ Len(zoom_events) < MaxEvents
            /\ WebhookStart(i, MeetingEvent("meeting.updated"))
    \/ \E i \in Invocations :
            /\ inv[i].kind = "idle"
            /\ \A j \in Invocations : inv[j].kind # "webhook" \/ inv[j].pc = "done"
            /\ Len(zoom_events) < MaxEvents
            /\ listing.meetings = {}
            /\ WebhookStart(i, MeetingEvent("meeting.deleted"))
    \/ \E i \in Invocations : WebhookLog(i, TRUE)
    \/ \E i \in Invocations : WebhookMeeting(i, TRUE)
    \/ \E i \in Invocations : ~inv[i].removed /\ Finish(i)

SpecDeletion == InitDeletion /\ [][NextDeletion]_vars

(***************************************************************************)
(* Properties of the token step.                                            *)
(***************************************************************************)
Pulls == {"cron", "users", "meetings"}
Refreshers == Pulls \cup {"refresh"}

\* The token step has handed a token to the rest of the handler.
TokenStepReturned(r) ==
    r.margin # "" /\ r.pc \notin {"token", "refresh", "persist"} /\ ~r.refused

\* C1: when the stored credential expires more than 300 seconds after the
\* check, the token step of cron-trigger, zoom-users and zoom-meetings hands
\* out the stored access_token, calls the provider's token endpoint not at
\* all, and leaves the credential row as it read it.
C1_FreshTokenReturned ==
    \A i \in Invocations :
        LET r == inv[i]
        IN  (r.kind \in Pulls /\ r.margin = "fresh") =>
                /\ r.pc \notin {"refresh", "persist"}
                /\ r.tokenCalls = 0
                /\ r.credWrites = 0
                /\ r.accessToken = r.tokenData[1].access_token
                /\ zoom_tokens = r.tokenData

\* A pull that ended well on a credential with 300.5 seconds left.
C1_Witness ==
    \E i \in Invocations :
        /\ inv[i].kind \in Pulls /\ inv[i].margin = "fresh"
        /\ inv[i].tokenData[1].expires_at - now = MarginSeconds * 1000 + TickMs
        /\ inv[i].listCalls > 0
        /\ inv[i].pc = "done" /\ inv[i].status = 200

\* C2: when the stored credential expires 300 seconds or less after the
\* check, a token step that returns has made exactly one refresh call, and
\* the token it returns is the access_token the store holds at that moment.
C2_DueTokenRefreshedOnce ==
    \A i \in Invocations :
        LET r == inv[i]
        IN  (r.kind \in Pulls /\ r.margin = "due" /\ TokenStepReturned(r)) =>
                /\ r.tokenCalls = 1
                /\ r.accessToken = r.storedAtReturn

\* C3: when the provider answers the refresh call with a non-success
\* status, the invocation ends without a write to zoom_tokens, and the row
\* is the one the invocation read; in cron-trigger, zoom-users,
\* zoom-meetings and refresh-zoom-token.
C3_RejectedRefreshKeepsCredential ==
    \A i \in Invocations :
        LET r == inv[i]
        IN  (r.kind \in Refreshers /\ r.refused) =>
                /\ r.pc = "done" /\ r.status >= 400
                /\ r.credWrites = 0
                /\ zoom_tokens = r.tokenData

\* refresh-zoom-token ended on the provider's rejection, a credential stored.
C3_Witness ==
    \E i \in Invocations :
        /\ inv[i].kind = "refresh" /\ inv[i].refused /\ inv[i].pc = "done"
        /\ 1 \in DOMAIN zoom_tokens

\* C4: an invocation whose write of the new token pair failed ends in
\* failure, without a listing call and without handing the token out.
C4_UnstoredTokenNeverUsed ==
    \A i \in Invocations :
        LET r == inv[i]
        IN  (r.kind \in Refreshers /\ r.credWrites > 0 /\ ~r.persisted) =>
                /\ r.pc = "done" /\ r.status >= 400
                /\ r.listCalls = 0

CredentialMissing == {"No Zoom tokens found", "No Zoom tokens found.", NoTokens}
Unauthorized == {"Unauthorized", "Missing Authorization header", "Invalid authorization"}

\* C5: with no row in zoom_tokens, an invocation of cron-trigger, zoom-users
\* or zoom-meetings that got past its authorization ends with its
\* credential-missing error, having made no token call, no listing call and
\* no write to zoom_users, zoom_meetings or zoom_tokens.
C5_NoCredentialNoWork ==
    \A i \in Invocations :
        LET r == inv[i]
        IN  (r.kind \in Pulls /\ zoom_tokens = << >> /\ r.pc # "token") =>
                /\ r.pc = "done" /\ r.status >= 400
                /\ r.error \in CredentialMissing \cup Unauthorized
                /\ r.tokenCalls = 0 /\ r.listCalls = 0
                /\ r.entityWrites = 0 /\ r.credWrites = 0

\* zoom-meetings ended on the missing credential.
C5_Witness ==
    \E i \in Invocations :
        /\ inv[i].kind = "meetings" /\ inv[i].pc = "done"
        /\ inv[i].error = NoTokens
        /\ zoom_tokens = << >>

(***************************************************************************)
(* Properties of verifyZoomSignature.                                       *)
(***************************************************************************)
WellFormedInteger(str) ==
    str # << >> /\ \A n \in DOMAIN str : str[n] \in DigitChars

\* |now - timestamp| <= 300 seconds, for a timestamp that is a number.
WithinMaxAge(str, t) ==
    WellFormedInteger(str) /\ Abs(t \div 1000 - DigitsValue(str)) <= MaxAge

BothHeaders(headers) ==
    Has(headers, "x-zm-signature") /\ Has(headers, "x-zm-request-timestamp")

\* C6: verifyZoomSignature answers true exactly when both headers are
\* present, the timestamp is within 300 seconds of now, and the signature
\* header is "v0=" + hex(HMAC(secret, "v0:" + timestamp + ":" + rawBody)).
C6_VerifiesExactly ==
    (DOMAIN sig # {} /\ sig.called) =>
        (sig.result <=>
            /\ BothHeaders(sig.headers)
            /\ WithinMaxAge(sig.headers["x-zm-request-timestamp"], now)
            /\ sig.headers["x-zm-signature"] =
                 ComputedSignature(ZOOM_WEBHOOK_SECRET_TOKEN,
                                   sig.headers["x-zm-request-timestamp"], sig.body))

\* C7: with both headers present, verifyZoomSignature answers false for
\* every timestamp value that is not within 300 seconds of now, a value that
\* is not a well-formed integer included.
C7_StaleTimestampRejected ==
    (DOMAIN sig # {} /\ sig.called /\ BothHeaders(sig.headers)
        /\ ~WithinMaxAge(sig.headers["x-zm-request-timestamp"], now)) => ~sig.result

(***************************************************************************)
(* Properties of the webhook handler.                                       *)
(***************************************************************************)
\* C8: a step writes to zoom_events, zoom_meetings or zoom_users only on
\* behalf of a webhook whose event is not endpoint.url_validation and for
\* which verifyZoomSignature answered true.
C8_WritesOnlyWhenVerified ==
    [][\A i \in Invocations :
        (\/ inv'[i].entityWrites > inv[i].entityWrites
         \/ (inv[i].kind = "webhook" /\ zoom_events' # zoom_events)
         \/ (inv[i].kind = "webhook" /\ zoom_meetings' # zoom_meetings)
         \/ (inv[i].kind = "webhook" /\ zoom_users' # zoom_users))
        => /\ inv[i].kind = "webhook"
           /\ inv[i].isValid
           /\ inv[i].req.event # "endpoint.url_validation"]_vars

\* A meeting.deleted request was refused while meetings are stored.
C8_Witness ==
    \E i \in Invocations :
        /\ inv[i].kind = "webhook" /\ inv[i].pc = "done" /\ inv[i].status = 401
        /\ inv[i].req.event = "meeting.deleted"
        /\ inv[i].entityWrites = 0
        /\ zoom_meetings # << >> /\ zoom_events # << >>

\* C9: no step of a bulk pull removes a key from zoom_users or from
\* zoom_meetings.
C9_PullsNeverRemove ==
    [][/\ DOMAIN zoom_users \subseteq DOMAIN zoom_users'
       /\ DOMAIN zoom_meetings \subseteq DOMAIN zoom_meetings']_vars

\* zoom-users stored a listing of one user while two users are stored.
C9_Witness ==
    \E i \in Invocations :
        /\ inv[i].kind = "users" /\ inv[i].pc = "done" /\ inv[i].status = 200
        /\ inv[i].listCalls = 1 /\ inv[i].entityWrites = 1
        /\ Cardinality(DOMAIN zoom_users) = 2
        /\ zoom_meetings # << >>

\* The step of invocation i that deletes: the store carried the delete out.
Deletes(i) == inv[i].kind = "webhook" /\ ~inv[i].removed /\ inv'[i].removed

MeetingDeleted(i) ==
    LET key == NumberToString(inv[i].req.object.id)
    IN  /\ key \notin DOMAIN zoom_meetings'
        /\ DOMAIN zoom_meetings' = DOMAIN zoom_meetings \ {key}
        /\ \A k \in DOMAIN zoom_meetings' : zoom_meetings'[k] = zoom_meetings[k]
        /\ zoom_users' = zoom_users

UserDeleted(i) ==
    LET u == inv[i].req.object.id
    IN  /\ u \notin DOMAIN zoom_users'
        /\ DOMAIN zoom_users' = DOMAIN zoom_users \ {u}
        /\ \A k \in DOMAIN zoom_users' : zoom_users'[k] = zoom_users[k]

\* C10, as stated: the delete of a verified meeting.deleted leaves no row
\* with meeting_id = string(X), the delete of a verified user.deleted or
\* user.disassociated leaves no user U, and every other row of zoom_users
\* and zoom_meetings is as it was.
C10_DeleteLeavesOthersUnchanged ==
    [][\A i \in Invocations : Deletes(i) =>
        IF inv[i].pc = "wh_meeting" THEN MeetingDeleted(i)
        ELSE UserDeleted(i) /\ zoom_meetings' = zoom_meetings]_vars

\* C10, amended: as above, except that the delete of user U sets host_id to
\* null in the meetings U hosts (an update, which stamps their updated_at);
\* nothing else of zoom_meetings changes.
C10_DeleteNullsHostOnly ==
    [][\A i \in Invocations : Deletes(i) =>
        IF inv[i].pc = "wh_meeting" THEN MeetingDeleted(i)
        ELSE /\ UserDeleted(i)
             /\ DOMAIN zoom_meetings' = DOMAIN zoom_meetings
             /\ \A k \in DOMAIN zoom_meetings :
                    zoom_meetings'[k] =
                        IF zoom_meetings[k].host_id = inv[i].req.object.id
                        THEN [zoom_meetings[k] EXCEPT !.host_id = NULL, !.updated_at = now]
                        ELSE zoom_meetings[k]]_vars

\* user.deleted for u1 was applied: u1 is gone, its meeting 123 has no host,
\* meeting 45 is still hosted by u2.
C10_Witness ==
    \E i \in Invocations :
        /\ inv[i].kind = "webhook" /\ inv[i].removed
        /\ inv[i].req.event = "user.deleted"
        /\ DOMAIN zoom_users = {"u2"}
        /\ DOMAIN zoom_meetings = {NumberToString(123), NumberToString(45)}
        /\ zoom_meetings[NumberToString(123)].host_id = NULL
        /\ zoom_meetings[NumberToString(123)].topic = "t1"
        /\ zoom_meetings[NumberToString(45)].host_id = "u2"

\* The step of invocation i that sends the upsert of a meeting event.
MeetingUpsertStep(i) ==
    /\ inv[i].kind = "webhook" /\ inv[i].pc = "wh_meeting"
    /\ inv[i].req.event # "meeting.deleted"
    /\ inv'[i].pc = "done"

\* C11: the upsert of a meeting.created/updated/started/ended event leaves
\* every column of the stored meeting that the payload omits at its value,
\* removes no row and changes no other row of zoom_meetings or zoom_users;
\* only the columns the payload carries, and updated_at, may change.
C11_OmittedFieldsKept ==
    [][\A i \in Invocations : MeetingUpsertStep(i) =>
        LET m == inv[i].req.object
            key == NumberToString(m.id)
        IN  /\ zoom_users' = zoom_users
            /\ DOMAIN zoom_meetings \subseteq DOMAIN zoom_meetings'
            /\ \A k \in DOMAIN zoom_meetings :
                    IF k = key
                    THEN \A c \in DOMAIN zoom_meetings[k] \ (DOMAIN m \cup {"updated_at"}) :
                            zoom_meetings'[k][c] = zoom_meetings[k][c]
                    ELSE zoom_meetings'[k] = zoom_meetings[k]]_vars

\* A verified meeting.updated for meeting 123 that carried host_id and no
\* topic was handled, and the stored meeting still has its topic.
C11_Witness ==
    \E i \in Invocations :
        /\ inv[i].kind = "webhook" /\ inv[i].pc = "done" /\ inv[i].status = 200
        /\ inv[i].req.event = "meeting.updated"
        /\ inv[i].sent = {"id", "host_id"}
        /\ inv[i].entityWrites = 2
        /\ NumberToString(123) \in DOMAIN zoom_meetings
        /\ zoom_meetings[NumberToString(123)].topic = "t1"
        /\ zoom_meetings[NumberToString(123)].host_id = "u1"

(***************************************************************************)
(* Properties of redelivery.                                                *)
(***************************************************************************)
\* The key, in its table, of the row the delivered event is about.
DeliveredKey ==
    IF sig.request.body.event \in MeetingEventsSent
    THEN NumberToString(sig.request.body.object.id)
    ELSE sig.request.body.object.id

Unstamped(row) == Restrict(row, DOMAIN row \ {"updated_at"})

\* table is `first' except, at most, for updated_at of the row at key.
SameButStamp(table, first, key) ==
    /\ DOMAIN table = DOMAIN first
    /\ \A k \in DOMAIN table :
        IF k = key THEN Unstamped(table[k]) = Unstamped(first[k])
        ELSE table[k] = first[k]

\* C12, as stated: after the second delivery of an event zoom_users and
\* zoom_meetings are in the state the first delivery left them in.
C12_RedeliveryLeavesSameState ==
    sig.answered = 2 => <<zoom_users, zoom_meetings>> = sig.once

\* C12, amended: after the second delivery of an event zoom_users and
\* zoom_meetings are as the first delivery left them, except that
\* updated_at of the row the event upserts is the time of the second write.
C12_RedeliverySameButStamp ==
    sig.answered = 2 =>
        IF sig.request.body.event \in MeetingEventsSent
        THEN /\ zoom_users = sig.once[1]
             /\ SameButStamp(zoom_meetings, sig.once[2], DeliveredKey)
        ELSE /\ SameButStamp(zoom_users, sig.once[1], DeliveredKey)
             /\ zoom_meetings = sig.once[2]

\* user.updated for u1 was delivered twice, a second apart: the row of the
\* first delivery is stored but for its updated_at.
C12_Witness ==
    /\ sig.answered = 2
    /\ sig.request.body.event = "user.updated"
    /\ sig.request.body.object = [id |-> "u1", email |-> "a@x", status |-> "active"]
    /\ "u1" \in DOMAIN zoom_users
    /\ zoom_users["u1"].status = "active"
    /\ zoom_users["u1"].updated_at = sig.once[1]["u1"].updated_at + 2 * TickMs

(***************************************************************************)
(* Properties of the webhook's audit log and responses.                     *)
(***************************************************************************)
\* C13: an invocation that handled a verified event other than the URL
\* validation has appended exactly one record to zoom_events.
C13_OneRecordPerVerifiedEvent ==
    \A i \in Invocations :
        (inv[i].kind = "webhook" /\ inv[i].pc = "done" /\ inv[i].isValid)
            => inv[i].logged = 1

(***************************************************************************)
(* Properties of the credential row.                                        *)
(***************************************************************************)
\* C14: zoom_tokens holds at most one row, and its key is id = 1.
C14_SingleCredentialRow == DOMAIN zoom_tokens \subseteq {1}

\* A manual refresh stored pair 2 over the row the OAuth callback had stored.
C14_Witness ==
    \E i \in Invocations :
        /\ inv[i].kind = "refresh" /\ inv[i].pc = "done" /\ inv[i].persisted
        /\ DOMAIN zoom_tokens = {1}
        /\ zoom_tokens[1].access_token = 2

\* C15: the stored access_token and expires_at come from one provider
\* answer: expires_at is the expires_in of the answer that carried the stored
\* access_token, added to the clock of the handler that received it.
C15_TokenAndExpiryFromOneResponse ==
    1 \in DOMAIN zoom_tokens =>
        LET row == zoom_tokens[1]
        IN  /\ row.access_token \in 1 .. Len(zoom.grants)
            /\ row.expires_at - zoom.grants[row.access_token] * 1000 \in Epoch .. now

\* While an OAuth callback holds pair 3 to save, the row holds pair 2, which
\* a refresher stored with its own expiry over the pair of the start.
C15_Witness ==
    \E i, j \in Invocations :
        /\ i # j
        /\ inv[i].kind = "oauth" /\ inv[i].pc = "save"
        /\ inv[i].tokens.access_token = 3
        /\ inv[j].kind \in {"cron", "users", "refresh"} /\ inv[j].persisted
        /\ zoom_tokens[1].access_token = 2
        /\ zoom_tokens[1].expires_at = now + 3599 * 1000
        /\ zoom.grants = <<MarginSeconds, 3599, 301>>

\* Invocations i and j of cron-trigger or zoom-users have ended after each
\* read the same stored credential inside the margin and presented its
\* refresh_token to the provider.
Raced(i, j) ==
    /\ i # j
    /\ inv[i].kind \in {"cron", "users"} /\ inv[j].kind \in {"cron", "users"}
    /\ inv[i].pc = "done" /\ inv[j].pc = "done"
    /\ Has(inv[i].tokenData, 1) /\ inv[i].tokenData = inv[j].tokenData
    /\ inv[i].margin = "due" /\ inv[j].margin = "due"
    /\ inv[i].tokenCalls = 1 /\ inv[j].tokenCalls = 1

\* C16: with single-use refresh tokens, of two invocations that raced on the
\* same credential at most one was granted a pair; one that was refused
\* ended in failure without a write to zoom_tokens; and when the granted
\* one's update was carried out, the row holds its pair.
C16_OneRefresherWins ==
    \A i, j \in Invocations :
        (zoom.singleUse /\ Raced(i, j)) =>
            /\ inv[i].refused \/ inv[j].refused
            /\ inv[j].refused => (inv[j].credWrites = 0 /\ inv[j].status >= 400)
            /\ (~inv[i].refused /\ inv[i].persisted) =>
                    /\ zoom_tokens[1].access_token = inv[i].accessToken
                    /\ zoom_tokens[1].access_token # inv[i].tokenData[1].access_token
                    /\ zoom_tokens[1].refresh_token = inv[i].accessToken

\* cron-trigger and zoom-users raced on pair 1: zoom-users was refused and
\* answered 500, cron-trigger stored pair 2.
C16_Witness ==
    \E i, j \in Invocations :
        /\ zoom.singleUse /\ Raced(i, j)
        /\ inv[i].kind = "cron" /\ inv[j].kind = "users"
        /\ inv[j].refused /\ inv[j].status = 500 /\ inv[j].credWrites = 0
        /\ ~inv[i].refused /\ inv[i].persisted /\ inv[i].status = 200
        /\ zoom_tokens[1].access_token = 2
        /\ zoom.issued = 2

(***************************************************************************)
(* Properties of the users bulk pull.                                       *)
(***************************************************************************)
\* The cursors a pull of the book passes, page by page: none first, then the
\* next_page_token of the page before.
CursorsOf(book) ==
    [k \in 1 .. Len(book) |-> IF k = 1 THEN "" ELSE book[k - 1].next_page_token]

UsersOf(book) == UNION { { book[k].users[n].id : n \in DOMAIN book[k].users } : k \in DOMAIN book }

\* C17: a users bulk pull that has ended requested each page of the book
\* once and in order, passing the previous page's cursor, stopped after the
\* page with the empty cursor, succeeded, and the users of all pages are
\* stored.
C17_EveryPageOnceAllUsersStored ==
    \A i \in Invocations :
        (inv[i].kind \in {"cron", "users"} /\ inv[i].pc = "done") =>
            /\ inv[i].asked = CursorsOf(listing.book)
            /\ inv[i].listCalls = Len(listing.book)
            /\ inv[i].status = 200
            /\ DOMAIN zoom_users = UsersOf(listing.book)

\* The request invocation i answered was the URL validation challenge.
Challenge(i) == Has(inv[i].req, "event") /\ inv[i].req.event = "endpoint.url_validation"

\* C18: the webhook endpoint has answered the URL validation with 200, a
\* request that is not the challenge and did not pass the verification of
\* its signature with 401, and a verified event with 200.
C18_ChallengeVerifiedRefused ==
    \A i \in Invocations :
        (inv[i].kind = "webhook" /\ inv[i].pc = "done") =>
            inv[i].status = IF Challenge(i) \/ inv[i].isValid THEN 200 ELSE 401

(***************************************************************************)
(* Properties of the scheduled-sync entry points.                           *)
(***************************************************************************)
\* The request of invocation i presented CRON_SECRET itself as its token,
\* after the Bearer scheme or alone.
PresentsSecret(i) ==
    inv[i].req.authorization \in {<<"Bearer ">> \o CRON_SECRET, CRON_SECRET}

\* C19: a scheduled-sync invocation whose request did not present exactly
\* CRON_SECRET has ended with an authorization failure (401 or 403) and
\* made no provider call and no write to zoom_tokens, zoom_users or
\* zoom_meetings.
C19_OnlyTheSecretGetsIn ==
    \A i \in Invocations :
        (inv[i].kind \in {"cron", "users", "meetings"} /\ ~PresentsSecret(i)) =>
            /\ inv[i].pc = "done"
            /\ inv[i].status \in {401, 403}
            /\ inv[i].tokenCalls = 0 /\ inv[i].listCalls = 0
            /\ inv[i].credWrites = 0 /\ inv[i].entityWrites = 0

\* C20: a scheduled invocation whose token step failed (no credential
\* stored or read, or the refresh refused) has ended in failure without a
\* listing call and without an upsert to zoom_users or zoom_meetings.
C20_FailedTokenStepStopsThePull ==
    \A i \in Invocations :
        LET r == inv[i]
        IN  (/\ r.kind \in Pulls
             /\ r.pc # "idle"
             /\ r.error \in CredentialMissing \/ r.refused)
            => /\ r.pc = "done"
               /\ r.status >= 400
               /\ r.listCalls = 0
               /\ r.entityWrites = 0

\* cron-trigger sync-all ended with 500 after the provider refused the
\* refresh of a stored, due credential; no listing call, no upsert.
C20_Witness ==
    \E i \in Invocations :
        /\ inv[i].kind = "cron" /\ inv[i].action = "sync-all" /\ inv[i].pc = "done"
        /\ inv[i].refused /\ inv[i].tokenCalls = 1
        /\ inv[i].status = 500 /\ inv[i].error = "Failed to refresh token"
        /\ inv[i].listCalls = 0 /\ inv[i].entityWrites = 0
        /\ 1 \in DOMAIN zoom_tokens

(***************************************************************************)
(* Properties of the refreshing entry points under every deployment.       *)
(***************************************************************************)
ConfigurationErrors == {MissingSecrets, MissingSecretsInSecrets}

\* The invocation came to the point where it refreshes: a pull that read a
\* credential inside the safety margin, or a manual refresh by an admin.
RefreshWasDue(r) ==
    \/ r.kind \in Pulls /\ r.margin = "due"
    \/ r.kind = "refresh" /\ r.pc # "idle" /\ r.error \notin Unauthorized
                          /\ r.error # "Invalid or expired token"
                          /\ r.error # "Admin access required"

\* C21: with ZOOM_CLIENT_ID or ZOOM_CLIENT_SECRET not set, an invocation of
\* a refreshing entry point (cron-trigger, zoom-users, zoom-meetings,
\* refresh-zoom-token) for which a refresh is due ends with a configuration
\* error, having made no call to the provider's token endpoint and no write
\* to the credential row.
C21_MissingSecretsFailBeforeTheProvider ==
    \A i \in DOMAIN inv :
        LET r == inv[i]
        IN  (/\ MissingConfig(env)
             /\ r.kind \in Refreshers
             /\ r.pc = "done"
             /\ RefreshWasDue(r))
            => /\ r.error \in ConfigurationErrors
               /\ r.tokenCalls = 0
               /\ r.credWrites = 0

\* The step in which invocation i's update of the credential row is carried out.
PersistStep(i) ==
    /\ inv[i].kind \in Refreshers /\ inv[i].pc = "persist"
    /\ inv'[i].credWrites = inv[i].credWrites + 1
    /\ inv'[i].persisted

\* The provider's last answer carried a refresh_token: the token it accepts
\* now is the one of the pair it issued last.
LastAnswerRotated == zoom.refresh = zoom.issued

\* C22: when the update after a refresh is carried out, the stored
\* refresh_token becomes the one of the provider's answer if the answer
\* carried one, and stays what it was before if the answer left it out; so
\* in cron-trigger, zoom-users, zoom-meetings and refresh-zoom-token.
C22_OmittedRefreshTokenKept ==
    [][\A i \in DOMAIN inv :
          PersistStep(i) =>
             zoom_tokens'[1].refresh_token =
                IF LastAnswerRotated THEN zoom.issued ELSE zoom_tokens[1].refresh_token]_vars

\* zoom-users refreshed with an answer that left refresh_token out: the row
\* holds the new access token next to the refresh token it held before.
C22_Witness ==
    \E i \in DOMAIN inv :
        /\ inv[i].kind = "users" /\ inv[i].pc = "done" /\ inv[i].persisted
        /\ ~LastAnswerRotated
        /\ zoom_tokens[1].access_token = zoom.issued
        /\ zoom_tokens[1].refresh_token = 1

\* An explicit refresh: the refresh-token action of cron-trigger, or
\* refresh-zoom-token.
ExplicitRefresh(r) ==
    \/ r.kind = "cron" /\ r.action = "refresh-token"
    \/ r.kind = "refresh"

\* C23: an explicit refresh that reports success has exchanged the stored
\* refresh_token at the provider exactly once, however far in the future the
\* stored expires_at lay, and its update of the credential row to the newly
\* issued pair was carried out.
C23_ExplicitRefreshExchangesOnce ==
    \A i \in DOMAIN inv :
        (/\ ExplicitRefresh(inv[i])
         /\ inv[i].pc = "done"
         /\ inv[i].status = 200)
        => /\ inv[i].tokenCalls = 1
           /\ inv[i].persisted

\* C24: a scheduled invocation (cron-trigger, zoom-users, zoom-meetings)
\* that ended in a failure other than an unknown action answered 401 when
\* the failure was one of authorization (bearer secret missing or wrong),
\* and 500 when it was of any other kind.
C24_401ExactlyForAuthorization ==
    \A i \in DOMAIN inv :
        LET r == inv[i]
        IN  (/\ r.kind \in Pulls
             /\ r.pc = "done"
             /\ r.status # 200
             /\ r.error # "Unknown action")
            => r.status = IF r.error \in Unauthorized THEN 401 ELSE 500

\* C25: an authorized cron-trigger invocation whose action is none of
\* sync-users, sync-meetings, sync-all, refresh-token ends with 400, having
\* made no call to the provider and no write to zoom_tokens, zoom_users or
\* zoom_meetings, whatever the stored credential.
C25_UnknownActionOnly400 ==
    \A i \in DOMAIN inv :
        LET r == inv[i]
        IN  (/\ r.kind = "cron"
             /\ r.action = "other"
             /\ r.pc = "done"
             /\ r.error # "Unauthorized")
            => /\ r.status = 400
               /\ r.tokenCalls = 0
               /\ r.credWrites = 0
               /\ r.entityWrites = 0

(***************************************************************************)
(* Properties of a pull racing with a webhook delta.                       *)
(***************************************************************************)
Payload(row) == Restrict(row, MeetingColumns)

\* The pull and the delta have both written meeting 123.
BothWrote(i, j) ==
    /\ inv[i].kind \in {"cron", "meetings"} /\ inv[i].pc = "done"
    /\ inv[i].status = 200 /\ inv[i].entityWrites > 0
    /\ inv[j].kind = "webhook" /\ inv[j].pc = "done" /\ inv[j].status = 200

\* The columns of DeltaSnapshot the delivery of invocation j carried.
DeltaOf(j) == Restrict(DeltaSnapshot, inv[j].sent \cap MeetingColumns)

\* The row of meeting 123 holds the payload columns of one write alone: the
\* pull's, or the delta's with null in the columns it left out.
C26_RowFromOneWriteAlone ==
    \A i, j \in Invocations :
        BothWrote(i, j) =>
            Payload(zoom_meetings[NumberToString(123)]) \in
                { Payload(PullSnapshot), Merge(NullRow(MeetingColumns), DeltaOf(j)) }

\* C26: after a pull and a webhook delta raced on one meeting_id, in any
\* interleaving, each of the two upserts was applied as a whole: the row
\* holds either the pull's snapshot in every payload column (the pull wrote
\* last), or the delta's value in every column the delta carried and the
\* pull's value in every column it left out (the delta wrote last).
C26_LaterWriteWinsColumnsItSent ==
    \A i, j \in Invocations :
        BothWrote(i, j) =>
            Payload(zoom_meetings[NumberToString(123)]) \in
                { Payload(PullSnapshot), Merge(Payload(PullSnapshot), DeltaOf(j)) }

\* cron-trigger's pull wrote first and a delta carrying topic alone wrote
\* last: the row has the delta's topic and the pull's host_id.
C26_Witness ==
    \E i, j \in Invocations :
        /\ BothWrote(i, j)
        /\ inv[i].kind = "cron"
        /\ inv[j].sent = {"id", "topic"}
        /\ zoom_meetings[NumberToString(123)].topic = "t2"
        /\ zoom_meetings[NumberToString(123)].host_id = "u1"

(***************************************************************************)
(* Properties of the audit log of meeting events.                          *)
(***************************************************************************)
\* Invocation i takes its step at position pc.
StepAt(i, pc) == inv[i].kind = "webhook" /\ inv[i].pc = pc /\ inv'[i] # inv[i]

\* C27: for a verified meeting event the insert into zoom_events is issued
\* first and touches no meeting; whether it succeeds or fails, the handler
\* goes on to the delete or upsert of the meeting; that step, carried out
\* or failing, comes after the insert and leaves zoom_events as it is.
C27_LogFirstAndIndependent ==
    [][\A i \in DOMAIN inv :
          /\ StepAt(i, "wh_log") =>
                /\ inv[i].entityWrites = 0
                /\ zoom_meetings' = zoom_meetings
                /\ inv'[i].pc = "wh_meeting"
          /\ StepAt(i, "wh_meeting") =>
                /\ inv[i].entityWrites = 1
                /\ zoom_events' = zoom_events
                /\ inv'[i].pc = "done" /\ inv'[i].status = 200]_vars

\* A verified meeting.deleted whose insert into zoom_events failed: no
\* record was written and the meeting was deleted all the same.
C27_Witness ==
    \E i \in DOMAIN inv :
        /\ inv[i].kind = "webhook" /\ inv[i].pc = "done" /\ inv[i].isValid
        /\ inv[i].req.event = "meeting.deleted"
        /\ inv[i].logged = 0 /\ inv[i].entityWrites = 2
        /\ inv[i].removed
        /\ zoom_events = << >>

(***************************************************************************)
(* Properties of the meetings bulk pull.                                   *)
(***************************************************************************)
\* C28: a meetings bulk pull (cron-trigger sync-meetings or sync-all,
\* zoom-meetings) in which the meeting-list request of a user failed, by a
\* non-success status or a thrown error, and whose writes the store did not
\* refuse, has not stopped at that user: it has asked for the meetings of
\* every user and has completed successfully.
C28_FailedListingDoesNotStopThePull ==
    \A i \in DOMAIN inv :
        LET r == inv[i]
        IN  (/\ r.kind \in {"cron", "meetings"}
             /\ r.pc = "done"
             /\ r.listFailures > 0
             /\ r.error # "store error")
            => r.status = 200

\* The users of the first n pages of the book.
UsersOfFirst(book, n) ==
    UNION { { book[k].users[m].id : m \in DOMAIN book[k].users } : k \in 1 .. n }

ListingFailures == {"Zoom API error", "Failed to fetch Zoom users"}

\* C29: a users bulk pull (cron-trigger sync-users, zoom-users) whose
\* request for page k > 1 failed has ended in failure with the users of
\* pages 1 .. k-1 stored and no request after the one that failed.
C29_PagesBeforeTheFailureStored ==
    \A i \in DOMAIN inv :
        LET r == inv[i]
        IN  (/\ r.kind \in {"cron", "users"}
             /\ r.pc = "done"
             /\ r.error \in ListingFailures
             /\ r.listCalls > 1)
            => /\ r.status >= 400
               /\ Len(r.asked) = r.listCalls
               /\ UsersOfFirst(listing.book, r.listCalls - 1) \subseteq DOMAIN zoom_users

\* The meeting_id of every meeting on any page of the book.
MeetingsOf(book) ==
    UNION { { NumberToString(book[k].meetings[n].id) : n \in DOMAIN book[k].meetings } :
            k \in DOMAIN book }

\* C30: a meetings bulk pull that has completed has followed the cursor of
\* each user's listing to its end: it made one request per page, and the
\* meetings of every page, not of the first alone, are stored.
C30_EveryMeetingPageStored ==
    \A i \in DOMAIN inv :
        LET r == inv[i]
        IN  (/\ r.kind \in {"cron", "meetings"}
             /\ r.pc = "done"
             /\ r.status = 200)
            => MeetingsOf(listing.book) \subseteq DOMAIN zoom_meetings

(***************************************************************************)
(* Properties of the entity writes.                                        *)
(***************************************************************************)
\* The store rejects the upsert of this meeting payload: the row it would
\* leave names a host that is not stored.
MeetingUpsertRejected(patch) ==
    ~MeetingRowOk(zoom_users,
                  UpsertRow(zoom_meetings, patch.meeting_id, MeetingColumns, patch)[patch.meeting_id])

\* Invocation i issues a meeting upsert that the store rejects.
RejectedUpsertStep(i) ==
    \/ /\ StepAt(i, "wh_meeting")
       /\ inv[i].req.event # "meeting.deleted"
       /\ MeetingUpsertRejected(SyncData(inv[i].req.object))
    \/ /\ inv[i].kind = "cron" /\ inv[i].pc = "sm_upsert" /\ inv'[i] # inv[i]
       /\ MeetingUpsertRejected(MeetingRecord(Head(inv[i].queue)))

\* C31: an invocation (webhook delta, cron-trigger bulk pull) whose upsert
\* of a meeting the store rejects, the meeting's host_id naming no stored
\* user, ends there and reports a failure to its caller.
C31_RejectedWriteReported ==
    [][\A i \in DOMAIN inv :
          RejectedUpsertStep(i) => inv'[i].pc = "done" /\ inv'[i].status >= 400]_vars

\* C32: every stored meeting's host_id is null or the id of a stored user;
\* the delete of a user leaves the meetings the user hosted stored with a
\* null host_id, and no upsert stores a meeting whose host is absent.
C32_HostStoredOrNull ==
    \A m \in DOMAIN zoom_meetings :
        zoom_meetings[m].host_id = NULL \/ zoom_meetings[m].host_id \in DOMAIN zoom_users

\* A user.deleted or user.disassociated webhook removed a user; a meeting
\* the user hosted is still stored, with its topic and a null host_id.
C32_Witness ==
    \E i \in DOMAIN inv, m \in DOMAIN zoom_meetings :
        /\ inv[i].kind = "webhook" /\ inv[i].pc = "done" /\ inv[i].removed
        /\ inv[i].req.event \in {"user.deleted", "user.disassociated"}
        /\ zoom_meetings[m].host_id = NULL
        /\ zoom_meetings[m].topic = "t1"
        /\ DOMAIN zoom_users # UserIds

(***************************************************************************)
(* Properties of the audit log over time.                                  *)
(***************************************************************************)
\* The records of a log, each with the number of times it occurs.
RECURSIVE Occurrences(_, _)
Occurrences(events, e) ==
    IF events = << >> THEN 0
    ELSE (IF Head(events) = e THEN 1 ELSE 0) + Occurrences(Tail(events), e)

Records(events) == { events[n] : n \in DOMAIN events }

UserUpsertStep(i) ==
    /\ StepAt(i, "wh_user")
    /\ inv[i].req.event \notin {"user.deleted", "user.disassociated"}

\* C34: the upsert of a non-deleting user.* event leaves every column of
\* the stored user that the payload omits at its value, removes no user and
\* changes no other user; only the columns the payload carries, and
\* updated_at, may change (as on the meeting path).
C34_OmittedUserFieldsKept ==
    [][\A i \in DOMAIN inv : UserUpsertStep(i) =>
        LET u == inv[i].req.object
        IN  /\ DOMAIN zoom_users \subseteq DOMAIN zoom_users'
            /\ \A k \in DOMAIN zoom_users :
                    IF k = u.id
                    THEN \A c \in DOMAIN zoom_users[k] \ (DOMAIN u \cup {"updated_at"}) :
                            zoom_users'[k][c] = zoom_users[k][c]
                    ELSE zoom_users'[k] = zoom_users[k]]_vars

\* A verified user.updated for the stored user u1 that carried email and no
\* status was handled: the email is the new one, the status the old one.
C34_Witness ==
    /\ Has(sig, "request")
    /\ sig.request.body.event = "user.updated"
    /\ sig.request.body.object = [id |-> "u1", email |-> "a@x"]
    /\ sig.answered >= 1
    /\ "u1" \in DOMAIN zoom_users
    /\ zoom_users["u1"].email = "a@x"
    /\ zoom_users["u1"].status = "inactive"

\* The meeting-list requests of an invocation that are in flight: every
\* request zoom-meetings started with users.map and has no answer to yet;
\* the one request syncZoomMeetings awaits.
InFlight(r) ==
    IF r.kind = "meetings" /\ r.pc = "zm_meetings" THEN Len(r.rest)
    ELSE IF r.kind = "cron" /\ r.pc = "sm_fetch" THEN 1
    ELSE 0

\* C35: a meetings bulk pull keeps the number of meeting-list requests in
\* flight within a bound that does not grow with the number of users; for
\* the least such bound, two, and a pull over three users: never are all
\* three requests in flight at once.
C35_FanOutBounded ==
    \A i \in DOMAIN inv :
        Cardinality(listing.users) > 2 => InFlight(inv[i]) < Cardinality(listing.users)

(***************************************************************************)
(* Properties of the authorize action.                                      *)
(***************************************************************************)
\* The answer of an authorize call that carries an authorization URL.
ReturnsAuthorizationUrl(r) ==
    r.kind = "oauth" /\ r.action = "authorize" /\ r.pc = "done" /\ r.status = 200

\* C36: the authorize action answers with an authorization URL only to a
\* caller whose bearer token belongs to an admin.
C36_AuthorizeUrlOnlyForAdmin ==
    \A i \in DOMAIN inv :
        ReturnsAuthorizationUrl(inv[i]) => inv[i].req.authorization = "admin"

(***************************************************************************)
(* Properties of a deleted meeting.                                         *)
(***************************************************************************)
\* A meeting.deleted webhook has been applied: its delete was carried out.
DeletionApplied == \E i \in DOMAIN inv : inv[i].removed

\* C37: once a meeting.deleted webhook for meeting 123 has been applied and
\* the provider produces nothing about the meeting afterwards, the meeting
\* stays absent from zoom_meetings: neither a pull whose listing was fetched
\* before the deletion nor an older meeting event delivered late stores it
\* again.
C37_DeletedMeetingStaysAbsent ==
    DeletionApplied => NumberToString(123) \notin DOMAIN zoom_meetings

(***************************************************************************)
(* Properties of the credential across invocations.                         *)
(***************************************************************************)
\* An invocation holds a token answer of the provider it has not yet
\* written to the store.
BetweenAnswerAndWrite(r) ==
    \/ r.kind \in Refreshers /\ r.pc = "persist"
    \/ r.kind = "oauth" /\ r.pc = "save"

\* C38: whenever no invocation is between the provider's token answer and
\* the end of its store write, the stored refresh_token is the one the
\* provider issued last, the only one it accepts.
C38_StoredRefreshTokenIsTheLatest ==
    ((\A i \in DOMAIN inv : ~BetweenAnswerAndWrite(inv[i])) /\ 1 \in DOMAIN zoom_tokens)
        => zoom_tokens[1].refresh_token = zoom.refresh

====
